---------------------------- MODULE Spec2Model ----------------------------
(***************************************************************************)
(* A model of the image annotation widget: the annotation editor           *)
(* (AnnotationEditor: hit-testing, drawing gestures, the note popover),    *)
(* the annotations page (AnnotationsPage: the annotation store, selection, *)
(* replies, completion, persistence) and the chat panel (AnnotationChat).  *)
(*                                                                         *)
(* Numbers are exact: canvas coordinates are integers, and a comparison    *)
(* of a square root or a quotient is made on the squared, cross-multiplied *)
(* values, so the model follows the real-number reading of the code's      *)
(* floating-point arithmetic.                                              *)
(***************************************************************************)
EXTENDS Integers, Sequences, FiniteSets, TLC

VARIABLES
    \* ---- AnnotationsPage state (page.tsx)
    annotations,         \* the annotation store, in creation order
    selectedId,          \* id of the selected annotation, or Null
    confirmingId,        \* side panel: the id whose "Confirm?" row shows, or Null
    stored,              \* localStorage's value under ANNOTATIONS_STORAGE_KEY
    panelOpen,           \* the side panel is slid in
    customChatPositions, \* id -> the position the user dragged the chat panel to
    chatPosition,        \* where the chat panel is shown, or Null
    reselectTimers,      \* ids of the pending setTimeout(() => setSelectedId(id), 0)
    \* ---- AnnotationEditor state (AnnotationEditor.tsx)
    originalImage,       \* the working image, or Null
    loads,               \* the image loads in flight
    alertMessage,        \* the alert() box on screen, or Null
    activeTool,          \* "select" | "brush"
    brushSize,
    brushOpacity,        \* in percent
    showHighlights,
    transform,           \* [x, y, scale]: pan in px and scale, exact fractions
    isPanning,
    wheelTimer,          \* the settle timeout of wheelTimeoutRef is pending
    wheelTimeouts,       \* the settle timeouts pending in the browser: the time each has waited
    isDrawing,
    dragStart,           \* a Point or Null
    dragEnd,             \* a Point or Null
    brushPoints,         \* points of the stroke being drawn
    pendingStrokes,      \* strokes staged for a brush highlight
    showInput,           \* the note popover is open
    pendingHighlight,    \* the staged rectangle, or Null
    inputText,           \* the popover's textarea, a sequence of characters
    pendingColor,        \* the color picked for the staged strokes, or Null
    \* ---- the environment
    now,                 \* the millisecond clock read by Date.now()
    \* ---- inputs and results of the pure hit-testing functions
    gMode, gPoint, gStroke, gAnns, gNear, gFound

storeVars  == <<annotations, stored>>
chatVars   == <<selectedId, chatPosition>>
pageVars   == <<confirmingId, panelOpen, customChatPositions, reselectTimers>>
imageVars  == <<originalImage, loads, alertMessage>>
toolVars   == <<activeTool, brushSize, brushOpacity, showHighlights>>
viewVars   == <<transform, isPanning, wheelTimer, wheelTimeouts>>
drawVars   == <<isDrawing, dragStart, dragEnd, brushPoints>>
pendVars   == <<pendingStrokes, showInput, pendingHighlight, inputText, pendingColor>>
geomVars   == <<gMode, gPoint, gStroke, gAnns, gNear, gFound>>
vars       == <<storeVars, chatVars, pageVars, imageVars, toolVars, viewVars, drawVars,
                pendVars, now, geomVars>>

(***************************************************************************)
(* Values                                                                  *)
(***************************************************************************)
\* JavaScript's null (and undefined), kept apart from every record of the model.
Null == [null |-> TRUE]

Pt(px, py) == [x |-> px, y |-> py]

\* String(n) of a millisecond count: the decimal string, one per number.
toString(n) == [str |-> n]

Abs(n) == IF n < 0 THEN 0 - n ELSE n
Min(a, b) == IF a <= b THEN a ELSE b
Max(a, b) == IF a >= b THEN a ELSE b

(***************************************************************************)
(* Geometry and hit-testing                                                *)
(***************************************************************************)
\* The squared distance from point to the segment p1-p2, as the fraction num/den
\* with den > 0. The code clamps t = dot/lengthSquared to [0,1] and measures from
\* point to p1 + t*(dx,dy); here t stands for t * lengthSquared, clamped to
\* [0, lengthSquared], and the squared length of (point - p1) - (t/lengthSquared)*(dx,dy)
\* is written over the denominator lengthSquared:
\*   |a|^2 - 2*(t/L)*dot + (t/L)^2 * L  =  (|a|^2 * L - 2*t*dot + t*t) / L.
distanceToLineSegment(point, p1, p2) ==
    LET dx == p2.x - p1.x
        dy == p2.y - p1.y
        ax == point.x - p1.x
        ay == point.y - p1.y
        lengthSquared == dx * dx + dy * dy
    IN  IF lengthSquared = 0
        THEN [num |-> ax * ax + ay * ay, den |-> 1]
        ELSE LET dot == ax * dx + ay * dy
                 t   == Max(0, Min(lengthSquared, dot))
             IN  [num |-> (ax * ax + ay * ay) * lengthSquared - 2 * t * dot + t * t,
                  den |-> lengthSquared]

\* dist <= brushSize/2 + 5, both sides squared and multiplied by 4 * den.
WithinThreshold(d, size) == 4 * d.num <= (size + 10) * (size + 10) * d.den

\* Variant with the threshold exclusive (dist < brushSize/2 + 5), for comparison
isPointNearStroke_strict(point, stroke) ==
    \E i \in 1..(Len(stroke.points) - 1) :
        LET d == distanceToLineSegment(point, stroke.points[i], stroke.points[i + 1])
        IN  4 * d.num < (stroke.brushSize + 10) * (stroke.brushSize + 10) * d.den

\* Some segment between consecutive points is within brushSize/2 + 5 of the point
isPointNearStroke(point, stroke) ==
    \E i \in 1..(Len(stroke.points) - 1) :
        WithinThreshold(distanceToLineSegment(point, stroke.points[i], stroke.points[i + 1]),
                        stroke.brushSize)

isPointInRect(point, rect) ==
    /\ point.x >= rect.x
    /\ point.x <= rect.x + rect.width
    /\ point.y >= rect.y
    /\ point.y <= rect.y + rect.height

\* annotations.filter(a => !a.completed)
RECURSIVE FilterActive(_)
FilterActive(anns) ==
    IF anns = <<>> THEN <<>>
    ELSE IF ~ Head(anns).completed
         THEN <<Head(anns)>> \o FilterActive(Tail(anns))
         ELSE FilterActive(Tail(anns))

\* Array.prototype.reverse
RECURSIVE Reverse(_)
Reverse(s) == IF s = <<>> THEN <<>> ELSE Append(Reverse(Tail(s)), Head(s))

HighlightHit(canvasPos, highlight) ==
    IF highlight.type = "rect"
    THEN isPointInRect(canvasPos, highlight)
    ELSE /\ highlight.type = "brush"
         /\ \E k \in 1..Len(highlight.strokes) :
                isPointNearStroke(canvasPos, highlight.strokes[k])

\* the for loop of findAnnotationAtPoint: the first hit of the list, else null
RECURSIVE FirstHit(_, _)
FirstHit(canvasPos, anns) ==
    IF anns = <<>> THEN Null
    ELSE IF HighlightHit(canvasPos, Head(anns).highlight)
         THEN Head(anns)
         ELSE FirstHit(canvasPos, Tail(anns))

\* Variant that walks the active annotations in creation order, for comparison
findAnnotationAtPoint_noReverse(canvasPos, anns) ==
    FirstHit(canvasPos, FilterActive(anns))

\* annotations.filter(a => !a.completed).reverse(), then the loop
findAnnotationAtPoint(canvasPos, anns) ==
    FirstHit(canvasPos, Reverse(FilterActive(anns)))


(***************************************************************************)
(* The annotation colors, by palette index                                 *)
(***************************************************************************)
\* 'rgba(r, g, b, a)', a in hundredths
rgba(r, g, b, a) == [r |-> r, g |-> g, b |-> b, a |-> a]

annotationColors ==
    <<rgba(255, 180, 0, 25), rgba(0, 200, 150, 25), rgba(100, 150, 255, 25),
      rgba(255, 100, 100, 25), rgba(180, 100, 255, 25), rgba(100, 220, 220, 25)>>

\* annotationColors[n % annotationColors.length]
ColorAt(n) == annotationColors[(n % Len(annotationColors)) + 1]

(***************************************************************************)
(* Inputs of the hit-testing functions                                     *)
(***************************************************************************)
GridMax      == 3     \* probe points lie on the grid {0, 10, .., 10 * GridMax}^2
MaxStrokeLen == 3     \* points of a probed stroke
GMaxAnns     == 2     \* annotations of a probed list

GCoords     == {10 * k : k \in 0..GridMax}
ProbePoints == {Pt(px, py) : px \in GCoords, py \in GCoords}
StrokePts   == {Pt(0, 0), Pt(20, 0), Pt(20, 20)}
StrokeSizes == {5, 10, 20}

SeqsUpTo(S, n) == UNION {[1..k -> S] : k \in 0..n}

GStrokes ==
    {[points |-> ps, brushSize |-> bs] :
        ps \in SeqsUpTo(StrokePts, MaxStrokeLen) \ {<<>>}, bs \in StrokeSizes}

GRect(rx, ry, rw, rh) ==
    [type |-> "rect", x |-> rx, y |-> ry, width |-> rw, height |-> rh, color |-> ColorAt(0)]

GBrush ==
    [type |-> "brush",
     strokes |-> << [points |-> <<Pt(0, 30), Pt(30, 30)>>, brushSize |-> 10],
                    [points |-> <<Pt(30, 0), Pt(30, 10)>>, brushSize |-> 5] >>,
     opacity |-> 40, color |-> ColorAt(1)]

GAnnotation(h, done) ==
    [id |-> toString(0), text |-> <<>>, highlight |-> h, color |-> h.color,
     timestamp |-> 0, replies |-> <<>>, completed |-> done]

GAnnPool ==
    {GAnnotation(h, done) :
        h \in {GRect(0, 0, 20, 20), GRect(10, 10, 20, 20), GBrush}, done \in BOOLEAN}

\* a list of the pool, each annotation with its own id (its creation rank)
GNumbered(s) == [i \in DOMAIN s |-> [s[i] EXCEPT !.id = toString(i), !.timestamp = i]]

GAnnLists == {GNumbered(s) : s \in SeqsUpTo(GAnnPool, GMaxAnns)}

(***************************************************************************)
(* The annotation store and its persistence (page.tsx)                     *)
(***************************************************************************)
\* String.prototype.trim on a sequence of characters
RECURSIVE TrimLeft(_)
TrimLeft(t) == IF t # <<>> /\ Head(t) = " " THEN TrimLeft(Tail(t)) ELSE t

trim(t) == Reverse(TrimLeft(Reverse(TrimLeft(t))))

\* JSON.stringify of the list: the text of an array holding the annotations'
\* fields; JSON.parse gives them back.
JSONstringify(anns) == [json |-> "array", value |-> anns]

\* localStorage values that JSON.parse rejects, or parses to something else than
\* an array
Malformed == [json |-> "malformed"]
NonArray  == [json |-> "object"]

\* the load effect: the parsed array, when there is one
LoadAnnotations(item) ==
    IF item # Null /\ item.json = "array" THEN item.value ELSE <<>>

\* the load effect calls setAnnotations at all
LoadSets(item) == item # Null /\ item.json = "array"

\* the auto-save effect, run with the list anns on the stored item: the item after
AutoSave(anns, item) ==
    IF Len(anns) = 0 /\ item # Null /\ item # JSONstringify(<<>>)
    THEN item
    ELSE JSONstringify(anns)

\* prev => [...prev, newAnnotation]
handleAddAnnotation(prev, newAnnotation) == Append(prev, newAnnotation)

\* Variant that flips the flag instead of setting it, for comparison
MarkCompleteMap_toggle(prev, id) ==
    [i \in DOMAIN prev |->
        IF prev[i].id = id THEN [prev[i] EXCEPT !.completed = ~ prev[i].completed]
        ELSE prev[i]]

\* prev.map(a => a.id === id ? { ...a, completed: true } : a)
MarkCompleteMap(prev, id) ==
    [i \in DOMAIN prev |->
        IF prev[i].id = id THEN [prev[i] EXCEPT !.completed = TRUE] ELSE prev[i]]

\* Variant that puts the new reply first, for comparison
ReplyMap_prepend(prev, annotationId, newReply) ==
    [i \in DOMAIN prev |->
        IF prev[i].id = annotationId
        THEN [prev[i] EXCEPT !.replies = <<newReply>> \o prev[i].replies]
        ELSE prev[i]]

\* Variant that also restamps the annotation, for comparison
ReplyMap_touch(prev, annotationId, newReply) ==
    [i \in DOMAIN prev |->
        IF prev[i].id = annotationId
        THEN [prev[i] EXCEPT !.replies = Append(prev[i].replies, newReply),
                             !.timestamp = newReply.timestamp]
        ELSE prev[i]]

\* prev.map(a => a.id === annotationId ? { ...a, replies: [...a.replies, newReply] } : a)
ReplyMap(prev, annotationId, newReply) ==
    [i \in DOMAIN prev |->
        IF prev[i].id = annotationId
        THEN [prev[i] EXCEPT !.replies = Append(prev[i].replies, newReply)]
        ELSE prev[i]]

\* annotations.find(a => a.id === selectedId && !a.completed), or Null
RECURSIVE FindSelected(_, _)
FindSelected(anns, id) ==
    IF anns = <<>> THEN Null
    ELSE IF Head(anns).id = id /\ ~ Head(anns).completed THEN Head(anns)
         ELSE FindSelected(Tail(anns), id)

selectedAnnotation == FindSelected(annotations, selectedId)
activeAnnotations  == FilterActive(annotations)

(***************************************************************************)
(* Exact fractions n/d (d > 0, in lowest terms) for the screen-space        *)
(* numbers: scale, pan offsets, panel positions                            *)
(***************************************************************************)
RECURSIVE GCD(_, _)
GCD(a, b) == IF b = 0 THEN a ELSE GCD(b, a % b)

Frac(n, d) ==
    LET sn == IF d < 0 THEN 0 - n ELSE n
        sd == Abs(d)
        g  == GCD(Abs(sn), sd)
    IN  [n |-> sn \div g, d |-> sd \div g]

R(k)       == [n |-> k, d |-> 1]
RAdd(a, b) == Frac(a.n * b.d + b.n * a.d, a.d * b.d)
RSub(a, b) == Frac(a.n * b.d - b.n * a.d, a.d * b.d)
RMul(a, b) == Frac(a.n * b.n, a.d * b.d)
RDiv(a, b) == Frac(a.n * b.d, a.d * b.n)
RLt(a, b)  == a.n * b.d < b.n * a.d
RLe(a, b)  == a.n * b.d <= b.n * a.d
RMax(a, b) == IF RLt(a, b) THEN b ELSE a
RMin(a, b) == IF RLt(b, a) THEN b ELSE a
RNeg(a)    == [n |-> 0 - a.n, d |-> a.d]

(***************************************************************************)
(* Layout: the window, the container of the canvas, the fitted canvas      *)
(***************************************************************************)
\* The window's inner size (the page is h-screen w-full).
Window == [width |-> 1320, height |-> 800]

\* The editor's container: the page's main region, which leaves 320 px (ml-80) to
\* the side panel when that is open.
ContainerSize(open) ==
    [width |-> Window.width - (IF open THEN 320 ELSE 0), height |-> Window.height]

\* redrawCanvas: the "contain" fit of the image in the container, the size given
\* to canvas.style.width/height
DisplaySize(img, container) ==
    IF img.width * container.height > container.width * img.height
    THEN [width  |-> R(container.width),
          height |-> Frac(container.width * img.height, img.width)]
    ELSE [width  |-> Frac(container.height * img.width, img.height),
          height |-> R(container.height)]

\* canvas.getBoundingClientRect() relative to the container: the fitted canvas,
\* centered by the flex container, under the wrapper's
\* translate3d(x, y) scale(scale) about its center
CanvasRect(img, container, tr) ==
    LET disp == DisplaySize(img, container)
        w    == RMul(disp.width, tr.scale)
        h    == RMul(disp.height, tr.scale)
    IN  [left   |-> RAdd(RSub(Frac(container.width, 2), RDiv(w, R(2))), tr.x),
         top    |-> RAdd(RSub(Frac(container.height, 2), RDiv(h, R(2))), tr.y),
         width  |-> w,
         height |-> h]

\* getBounds(currentScale): the pan bounds, zero while there is no canvas
getBounds(currentScale, img, container) ==
    IF img = Null
    THEN [minX |-> R(0), maxX |-> R(0), minY |-> R(0), maxY |-> R(0)]
    ELSE LET disp      == DisplaySize(img, container)
             overflowX == RMax(R(0), RDiv(RSub(RMul(disp.width, currentScale),
                                               R(container.width)), R(2)))
             overflowY == RMax(R(0), RDiv(RSub(RMul(disp.height, currentScale),
                                               R(container.height)), R(2)))
         IN  [minX |-> RNeg(overflowX), maxX |-> overflowX,
              minY |-> RNeg(overflowY), maxY |-> overflowY]

(***************************************************************************)
(* The chat panel position effect (page.tsx)                               *)
(***************************************************************************)
SetMin(S) == CHOOSE m \in S : \A o \in S : m <= o
SetMax(S) == CHOOSE m \in S : \A o \in S : m >= o

\* Variant whose brush box is the union of the points alone, for comparison
HighlightBox_points(highlight) ==
    IF highlight.type = "rect"
    THEN [minX |-> R(highlight.x), maxX |-> R(highlight.x + highlight.width),
          minY |-> R(highlight.y), maxY |-> R(highlight.y + highlight.height)]
    ELSE LET S   == highlight.strokes
             pts == UNION {{S[k].points[j] : j \in DOMAIN S[k].points} : k \in DOMAIN S}
         IN  [minX |-> R(SetMin({q.x : q \in pts})), maxX |-> R(SetMax({q.x : q \in pts})),
              minY |-> R(SetMin({q.y : q \in pts})), maxY |-> R(SetMax({q.y : q \in pts}))]

\* The highlight's bounding box in canvas units. A brush's box is the union of its
\* points inflated by brushSize/2.
HighlightBox(highlight) ==
    IF highlight.type = "rect"
    THEN [minX |-> R(highlight.x), maxX |-> R(highlight.x + highlight.width),
          minY |-> R(highlight.y), maxY |-> R(highlight.y + highlight.height)]
    ELSE LET S   == highlight.strokes
             pts == UNION {{[p |-> S[k].points[j], size |-> S[k].brushSize] :
                               j \in DOMAIN S[k].points} : k \in DOMAIN S}
         IN  [minX |-> Frac(SetMin({2 * q.p.x - q.size : q \in pts}), 2),
              maxX |-> Frac(SetMax({2 * q.p.x + q.size : q \in pts}), 2),
              minY |-> Frac(SetMin({2 * q.p.y - q.size : q \in pts}), 2),
              maxY |-> Frac(SetMax({2 * q.p.y + q.size : q \in pts}), 2)]

\* The position computed from the canvas's bounding rect
ChatAutoPosition(highlight, img, container, tr) ==
    LET rect       == CanvasRect(img, container, tr)
        scaleX     == RDiv(rect.width, R(img.width))
        scaleY     == RDiv(rect.height, R(img.height))
        box        == HighlightBox(highlight)
        screenMaxX == RAdd(RMul(box.maxX, scaleX), rect.left)
        screenMinX == RAdd(RMul(box.minX, scaleX), rect.left)
        screenMinY == RAdd(RMul(box.minY, scaleY), rect.top)
        right      == RAdd(screenMaxX, R(20))
        side       == IF RLt(R(container.width), RAdd(right, R(320)))
                      THEN RSub(RSub(screenMinX, R(320)), R(20))
                      ELSE right
        finalX     == IF RLt(side, R(20)) THEN R(20) ELSE side
        finalY     == RMax(R(20), RMin(screenMinY, R(container.height - 300)))
    IN  [x |-> finalX, y |-> finalY]

\* Variant that computes the position whenever there is an image, for comparison
ChatCompute_autoFirst(sel, custom, img, container, tr, old) ==
    IF sel = Null THEN Null
    ELSE IF img # Null THEN ChatAutoPosition(sel.highlight, img, container, tr)
    ELSE IF sel.id \in DOMAIN custom THEN custom[sel.id]
    ELSE old

\* The effect's body: sel is selectedAnnotation, old the position so far
ChatCompute(sel, custom, img, container, tr, old) ==
    IF sel = Null THEN Null
    ELSE IF sel.id \in DOMAIN custom THEN custom[sel.id]
    ELSE IF img # Null THEN ChatAutoPosition(sel.highlight, img, container, tr)
    ELSE old

\* The effect runs when selectedAnnotation or panelOpen changed, or when
\* customChatPositions or viewTick were set (rerun)
ChatEffect(rerun) ==
    chatPosition' =
        IF \/ rerun
           \/ FindSelected(annotations', selectedId') # selectedAnnotation
           \/ panelOpen' # panelOpen
        THEN ChatCompute(FindSelected(annotations', selectedId'), customChatPositions',
                         originalImage', ContainerSize(panelOpen'), transform',
                         chatPosition)
        ELSE chatPosition

\* The chat panel is rendered
chatVisible == selectedAnnotation # Null /\ chatPosition # Null

(***************************************************************************)
(* The page's handlers (page.tsx, AnnotationChat.tsx)                      *)
(***************************************************************************)
\* The side panel's row of an active annotation is clicked
PanelSelect(i) ==
    /\ panelOpen
    /\ i \in DOMAIN annotations
    /\ ~ annotations[i].completed
    /\ selectedId' = IF selectedId = annotations[i].id THEN Null ELSE annotations[i].id
    /\ UNCHANGED <<storeVars, pageVars, imageVars, toolVars, viewVars, drawVars,
                   pendVars, now, geomVars>>
    /\ ChatEffect(FALSE)

\* "Complete" in the row: ask to confirm
ConfirmStart(i) ==
    /\ panelOpen
    /\ i \in DOMAIN annotations
    /\ ~ annotations[i].completed
    /\ confirmingId # annotations[i].id
    /\ confirmingId' = annotations[i].id
    /\ UNCHANGED <<storeVars, chatVars, panelOpen, customChatPositions, reselectTimers,
                   imageVars, toolVars, viewVars, drawVars, pendVars, now, geomVars>>

\* "No"
ConfirmNo(i) ==
    /\ panelOpen
    /\ i \in DOMAIN annotations
    /\ ~ annotations[i].completed
    /\ confirmingId = annotations[i].id
    /\ confirmingId' = Null
    /\ UNCHANGED <<storeVars, chatVars, panelOpen, customChatPositions, reselectTimers,
                   imageVars, toolVars, viewVars, drawVars, pendVars, now, geomVars>>

\* Variant that leaves the selection alone, for comparison
handleMarkComplete_keepSelection(id) ==
    /\ annotations' = MarkCompleteMap(annotations, id)
    /\ stored' = AutoSave(annotations', stored)
    /\ selectedId' = selectedId
    /\ confirmingId' = Null
    /\ UNCHANGED <<panelOpen, customChatPositions, reselectTimers, imageVars, toolVars,
                   viewVars, drawVars, pendVars, now, geomVars>>
    /\ ChatEffect(FALSE)

\* handleMarkComplete, with the auto-save and chat position effects that follow it
handleMarkComplete(id) ==
    /\ annotations' = MarkCompleteMap(annotations, id)
    /\ stored' = AutoSave(annotations', stored)
    /\ selectedId' = IF selectedId = id THEN Null ELSE selectedId
    /\ confirmingId' = Null
    /\ UNCHANGED <<panelOpen, customChatPositions, reselectTimers, imageVars, toolVars,
                   viewVars, drawVars, pendVars, now, geomVars>>
    /\ ChatEffect(FALSE)

\* "Yes" in the row
ConfirmYes(i) ==
    /\ panelOpen
    /\ i \in DOMAIN annotations
    /\ ~ annotations[i].completed
    /\ confirmingId = annotations[i].id
    /\ handleMarkComplete(annotations[i].id)

\* "Mark as Complete", then "Confirm" in the chat panel
handleConfirmComplete ==
    /\ chatVisible
    /\ handleMarkComplete(selectedAnnotation.id)

\* The chat's close button, or Escape in its input
ChatClose ==
    /\ chatVisible
    /\ selectedId' = Null
    /\ UNCHANGED <<storeVars, pageVars, imageVars, toolVars, viewVars, drawVars,
                   pendVars, now, geomVars>>
    /\ ChatEffect(FALSE)

\* handleReply: the reply gets Date.now() as id; its timestamp is a second read of
\* the clock, later
handleReply(annotationId, text, later) ==
    LET newReply == [id |-> toString(now), text |-> text, timestamp |-> later]
    IN  /\ annotations' = ReplyMap(annotations, annotationId, newReply)
        /\ stored' = AutoSave(annotations', stored)
        /\ now' = later
        /\ UNCHANGED <<selectedId, pageVars, imageVars, toolVars, viewVars, drawVars,
                       pendVars, geomVars>>
        /\ ChatEffect(FALSE)

\* Send, or Enter in the chat's input holding replyText
handleSendReply(replyText, later) ==
    /\ chatVisible
    /\ later >= now
    /\ IF trim(replyText) = <<>>
       THEN UNCHANGED vars
       ELSE handleReply(selectedAnnotation.id, replyText, later)

\* Without a key, or with more keys
Remove(f, key) == [k \in DOMAIN f \ {key} |-> f[k]]
Put(f, key, v) == [k \in DOMAIN f \cup {key} |-> IF k = key THEN v ELSE f[k]]

\* The chat panel's header is dragged to position
handleChatPositionChange(position) ==
    /\ chatVisible
    /\ customChatPositions' = Put(customChatPositions, selectedAnnotation.id, position)
    /\ UNCHANGED <<storeVars, selectedId, confirmingId, panelOpen, reselectTimers,
                   imageVars, toolVars, viewVars, drawVars, pendVars, now, geomVars>>
    /\ ChatEffect(TRUE)

\* "Reset": forget the dragged position, deselect, and reselect from a timeout
handleResetChatPosition ==
    /\ chatVisible
    /\ customChatPositions' = Remove(customChatPositions, selectedAnnotation.id)
    /\ selectedId' = Null
    /\ reselectTimers' = Append(reselectTimers, selectedAnnotation.id)
    /\ UNCHANGED <<storeVars, confirmingId, panelOpen, imageVars, toolVars, viewVars,
                   drawVars, pendVars, now, geomVars>>
    /\ ChatEffect(TRUE)

\* setTimeout(() => setSelectedId(id), 0) fires
ReselectTimeout ==
    /\ reselectTimers # <<>>
    /\ selectedId' = Head(reselectTimers)
    /\ reselectTimers' = Tail(reselectTimers)
    /\ UNCHANGED <<storeVars, confirmingId, panelOpen, customChatPositions, imageVars,
                   toolVars, viewVars, drawVars, pendVars, now, geomVars>>
    /\ ChatEffect(FALSE)

\* The side panel's tab
TogglePanel ==
    /\ panelOpen' = ~ panelOpen
    /\ UNCHANGED <<storeVars, selectedId, confirmingId, customChatPositions,
                   reselectTimers, imageVars, toolVars, viewVars, drawVars, pendVars,
                   now, geomVars>>
    /\ ChatEffect(FALSE)

\* handleClearAnnotations, as called by a file upload
handleClearAnnotations ==
    /\ annotations' = <<>>
    /\ stored' = AutoSave(annotations', stored)

(***************************************************************************)
(* The editor's tools and keys (AnnotationEditor.tsx)                      *)
(***************************************************************************)
\* The window's keydown on a target that is no input or textarea
handleKeyDown(key) ==
    /\ brushSize' = IF key = "[" THEN Max(5, brushSize - 5)
                    ELSE IF key = "]" THEN Min(100, brushSize + 5)
                    ELSE brushSize
    /\ activeTool' = IF key = "b" THEN "brush"
                     ELSE IF key = "s" THEN "select"
                     ELSE activeTool
    /\ UNCHANGED <<storeVars, chatVars, pageVars, imageVars, brushOpacity, showHighlights,
                   viewVars, drawVars, pendVars, now, geomVars>>

\* The eye button
ToggleHighlights ==
    /\ showHighlights' = ~ showHighlights
    /\ UNCHANGED <<storeVars, chatVars, pageVars, imageVars, activeTool, brushSize,
                   brushOpacity, viewVars, drawVars, pendVars, now, geomVars>>

\* redrawCanvas: the ids of the committed highlights it draws, in drawing order,
\* on the canvas of img with the eye button at show
DrawnHighlights(show, img, anns) ==
    IF img # Null /\ show
    THEN [i \in DOMAIN FilterActive(anns) |-> FilterActive(anns)[i].id]
    ELSE <<>>

\* Date.now() moves on
Tick ==
    /\ now' = now + 1
    /\ UNCHANGED <<storeVars, chatVars, pageVars, imageVars, toolVars, viewVars,
                   drawVars, pendVars, geomVars>>

(***************************************************************************)
(* Drawing gestures and the note popover (AnnotationEditor.tsx)            *)
(***************************************************************************)
\* Where the browser draws the canvas pixel px: the canvas is stretched over its
\* bounding rectangle by the canvas style size and the wrapper's transform
PointerOver(px, img, container, tr) ==
    LET rect == CanvasRect(img, container, tr)
    IN  [clientX |-> RAdd(rect.left, RDiv(RMul(R(px.x), rect.width), R(img.width))),
         clientY |-> RAdd(rect.top, RDiv(RMul(R(px.y), rect.height), R(img.height)))]

\* Variant that scales by the canvas style size, the fitted size before the
\* wrapper's transform, for comparison
getCanvasPos_baseSize(e, img, container, tr) ==
    LET rect   == CanvasRect(img, container, tr)
        base   == DisplaySize(img, container)
        scaleX == RDiv(R(img.width), base.width)
        scaleY == RDiv(R(img.height), base.height)
    IN  [x |-> RMul(RSub(e.clientX, rect.left), scaleX),
         y |-> RMul(RSub(e.clientY, rect.top), scaleY)]

\* getCanvasPos(e), and the same conversion in the window's mousemove handler:
\* canvas.width is the image's width, rect is the canvas's bounding rectangle
getCanvasPos(e, img, container, tr) ==
    LET rect   == CanvasRect(img, container, tr)
        scaleX == RDiv(R(img.width), rect.width)
        scaleY == RDiv(R(img.height), rect.height)
    IN  [x |-> RMul(RSub(e.clientX, rect.left), scaleX),
         y |-> RMul(RSub(e.clientY, rect.top), scaleY)]

\* The pointer is inside the container, which clips the canvas
InContainer(e, container) ==
    /\ RLe(R(0), e.clientX) /\ RLe(e.clientX, R(container.width))
    /\ RLe(R(0), e.clientY) /\ RLe(e.clientY, R(container.height))

\* A position on whole canvas units
IsWhole(pos) == pos.x.d = 1 /\ pos.y.d = 1
Whole(pos)   == Pt(pos.x.n, pos.y.n)

\* Variant that looks for an annotation under the pointer whatever is staged, for
\* comparison
handleMouseDown_alwaysHit(canvasPos) ==
    /\ originalImage # Null       \* the canvas is rendered
    /\ IF showInput /\ activeTool = "select"
       THEN UNCHANGED vars
       ELSE LET clickedAnnotation ==
                    findAnnotationAtPoint(canvasPos, annotations)
            IN  IF clickedAnnotation # Null
                THEN /\ selectedId' = clickedAnnotation.id
                     /\ UNCHANGED <<storeVars, pageVars, imageVars, toolVars, viewVars,
                                    drawVars, pendVars, now, geomVars>>
                     /\ ChatEffect(FALSE)
                ELSE /\ isDrawing' = TRUE
                     /\ selectedId' = Null
                     /\ dragStart' = IF activeTool = "select" THEN canvasPos ELSE dragStart
                     /\ dragEnd' = IF activeTool = "select" THEN canvasPos ELSE dragEnd
                     /\ brushPoints' = IF activeTool = "brush" THEN <<canvasPos>>
                                       ELSE brushPoints
                     /\ pendingColor' = IF activeTool = "brush" /\ pendingStrokes = <<>>
                                        THEN ColorAt(Len(annotations))
                                        ELSE pendingColor
                     /\ UNCHANGED <<storeVars, pageVars, imageVars, toolVars, viewVars,
                                    pendingStrokes, showInput, pendingHighlight, inputText,
                                    now, geomVars>>
                     /\ ChatEffect(FALSE)

\* onMouseDown of the canvas at canvasPos = getCanvasPos(e)
handleMouseDown(canvasPos) ==
    /\ originalImage # Null       \* the canvas is rendered
    /\ IF showInput /\ activeTool = "select"
       THEN UNCHANGED vars
       ELSE LET clickedAnnotation ==
                    IF pendingStrokes = <<>> /\ ~ showInput
                    THEN findAnnotationAtPoint(canvasPos, annotations)
                    ELSE Null
            IN  IF clickedAnnotation # Null
                THEN /\ selectedId' = clickedAnnotation.id
                     /\ UNCHANGED <<storeVars, pageVars, imageVars, toolVars, viewVars,
                                    drawVars, pendVars, now, geomVars>>
                     /\ ChatEffect(FALSE)
                ELSE /\ isDrawing' = TRUE
                     /\ selectedId' = Null
                     /\ dragStart' = IF activeTool = "select" THEN canvasPos ELSE dragStart
                     /\ dragEnd' = IF activeTool = "select" THEN canvasPos ELSE dragEnd
                     /\ brushPoints' = IF activeTool = "brush" THEN <<canvasPos>>
                                       ELSE brushPoints
                     /\ pendingColor' = IF activeTool = "brush" /\ pendingStrokes = <<>>
                                        THEN ColorAt(Len(annotations))
                                        ELSE pendingColor
                     /\ UNCHANGED <<storeVars, pageVars, imageVars, toolVars, viewVars,
                                    pendingStrokes, showInput, pendingHighlight, inputText,
                                    now, geomVars>>
                     /\ ChatEffect(FALSE)

\* The window's mousemove while drawing; raw is the pointer in canvas units, which
\* the handler clamps to the canvas
handleWindowMouseMove(raw) ==
    /\ isDrawing
    /\ originalImage # Null
    /\ LET pos == Pt(Max(0, Min(originalImage.width, raw.x)),
                     Max(0, Min(originalImage.height, raw.y)))
       IN  /\ dragEnd' = IF activeTool = "select" /\ dragStart # Null THEN pos ELSE dragEnd
           /\ brushPoints' = IF ~ (activeTool = "select" /\ dragStart # Null)
                                /\ activeTool = "brush"
                             THEN Append(brushPoints, pos)
                             ELSE brushPoints
    /\ UNCHANGED <<storeVars, chatVars, pageVars, imageVars, toolVars, viewVars,
                   isDrawing, dragStart, pendVars, now, geomVars>>

\* A press on the canvas with the pointer over the canvas pixel px
MouseDownOver(px) ==
    /\ originalImage # Null
    /\ LET e   == PointerOver(px, originalImage, ContainerSize(panelOpen), transform)
           pos == getCanvasPos(e, originalImage, ContainerSize(panelOpen), transform)
       IN  /\ InContainer(e, ContainerSize(panelOpen))
           /\ IsWhole(pos)
           /\ handleMouseDown(Whole(pos))

\* The pointer moved over the canvas pixel px while drawing
MouseMoveOver(px) ==
    /\ originalImage # Null
    /\ LET e   == PointerOver(px, originalImage, ContainerSize(panelOpen), transform)
           pos == getCanvasPos(e, originalImage, ContainerSize(panelOpen), transform)
       IN  /\ IsWhole(pos)
           /\ handleWindowMouseMove(Whole(pos))

\* Variant anchored at the drag's start with signed extents, for comparison
DragRect_fromStart(from, to, color) ==
    [type |-> "rect", x |-> from.x, y |-> from.y,
     width |-> to.x - from.x, height |-> to.y - from.y, color |-> color]

\* The rectangle of a drag
DragRect(from, to, color) ==
    [type |-> "rect", x |-> Min(from.x, to.x), y |-> Min(from.y, to.y),
     width |-> Abs(to.x - from.x), height |-> Abs(to.y - from.y), color |-> color]

\* Variant with no least size, for comparison
StagesRect_anySize ==
    activeTool = "select" /\ dragStart # Null /\ dragEnd # Null

\* The drag stages a rectangle
StagesRect ==
    /\ activeTool = "select" /\ dragStart # Null /\ dragEnd # Null
    /\ Abs(dragEnd.x - dragStart.x) > 10
    /\ Abs(dragEnd.y - dragStart.y) > 10

\* The gesture stages a stroke
StagesStroke ==
    /\ ~ (activeTool = "select" /\ dragStart # Null /\ dragEnd # Null)
    /\ activeTool = "brush"
    /\ Len(brushPoints) > 2

\* The window's mouseup while drawing
handleWindowMouseUp ==
    /\ isDrawing
    /\ isDrawing' = FALSE
    /\ LET nextColor == IF pendingColor # Null THEN pendingColor
                        ELSE ColorAt(Len(annotations))
       IN  pendingHighlight' = IF StagesRect THEN DragRect(dragStart, dragEnd, nextColor)
                               ELSE pendingHighlight
    /\ pendingStrokes' = IF StagesStroke
                         THEN Append(pendingStrokes,
                                     [points |-> brushPoints, brushSize |-> brushSize])
                         ELSE pendingStrokes
    /\ showInput' = (showInput \/ StagesRect \/ StagesStroke)
    /\ dragStart' = Null
    /\ dragEnd' = Null
    /\ brushPoints' = <<>>
    /\ UNCHANGED <<storeVars, chatVars, pageVars, imageVars, toolVars, viewVars,
                   inputText, pendingColor, now, geomVars>>

\* onChange of the popover's textarea
setInputText(text) ==
    /\ showInput
    /\ inputText' = text
    /\ UNCHANGED <<storeVars, chatVars, pageVars, imageVars, toolVars, viewVars, drawVars,
                   pendingStrokes, showInput, pendingHighlight, pendingColor, now,
                   geomVars>>

\* What handleSaveAnnotation saves: the staged strokes when there are strokes and a
\* color, else the staged rectangle, else nothing (Null)
SavedHighlight ==
    IF pendingStrokes # <<>> /\ pendingColor # Null
    THEN [type |-> "brush", strokes |-> pendingStrokes, opacity |-> brushOpacity,
          color |-> pendingColor]
    ELSE IF pendingHighlight # Null THEN pendingHighlight
    ELSE Null

\* The record handleSaveAnnotation builds; its timestamp is a second read of the
\* clock, later
NewAnnotation(highlight, later) ==
    [id |-> toString(now), text |-> trim(inputText), highlight |-> highlight,
     color |-> highlight.color, timestamp |-> later, replies |-> <<>>,
     completed |-> FALSE]

\* Save, or Enter in the popover's textarea
handleSaveAnnotation(later) ==
    /\ showInput
    /\ later >= now
    /\ IF SavedHighlight = Null
       THEN UNCHANGED vars
       ELSE /\ annotations' = handleAddAnnotation(annotations,
                                                  NewAnnotation(SavedHighlight, later))
            /\ stored' = AutoSave(annotations', stored)
            /\ now' = later
            /\ pendingHighlight' = Null
            /\ pendingStrokes' = <<>>
            /\ pendingColor' = Null
            /\ inputText' = <<>>
            /\ showInput' = FALSE
            /\ UNCHANGED <<selectedId, pageVars, imageVars, toolVars, viewVars, drawVars,
                           geomVars>>
            /\ ChatEffect(FALSE)

\* Discard, or Escape in the popover's textarea
handleDiscard ==
    /\ showInput
    /\ pendingHighlight' = Null
    /\ pendingStrokes' = <<>>
    /\ pendingColor' = Null
    /\ inputText' = <<>>
    /\ showInput' = FALSE
    /\ UNCHANGED <<storeVars, chatVars, pageVars, imageVars, toolVars, viewVars, drawVars,
                   now, geomVars>>

(***************************************************************************)
(* The image loader (AnnotationEditor.tsx)                                 *)
(***************************************************************************)
MAX_CANVAS_DIMENSION == 8192
MaxLoads == 1     \* image loads in flight at a time

MAX_FILE_SIZE == 50 * 1024 * 1024

\* An image of a source, as decoded
Image(name, w, h) == [src |-> name, width |-> w, height |-> h]

\* The default image loaded on mount
DefaultImage == Image("default", 500, 400)

RemoveAt(s, k) == [i \in 1..(Len(s) - 1) |-> IF i < k THEN s[i] ELSE s[i + 1]]

\* loadImage(src): a File is first read by a FileReader, a URL is decoded at once
loadImage(img, isFile) ==
    loads' = Append(loads, [img |-> img, stage |-> IF isFile THEN "reading" ELSE "decoding"])

\* file.type.startsWith('image/'): type is <<the text up to the slash, the rest>>
StartsWithImage(type) == type[1] = "image"

\* alert(message): the box stays on screen until the user closes it
alert(message) == alertMessage' = [text |-> message]

\* The user closes the alert box
DismissAlert ==
    /\ alertMessage # Null
    /\ alertMessage' = Null
    /\ UNCHANGED <<storeVars, chatVars, pageVars, originalImage, loads, toolVars, viewVars,
                   drawVars, pendVars, now, geomVars>>

\* No alert box blocks the page
NoAlert == alertMessage = Null

\* Variant that clears the annotations before it looks at the file, for comparison
handleFileUpload_clearFirst(file) ==
    /\ handleClearAnnotations
    /\ IF ~ StartsWithImage(file.type)
       THEN /\ alert("Please upload an image file (JPEG, PNG, GIF, etc.)")
            /\ UNCHANGED <<chatVars, pageVars, originalImage, loads, toolVars,
                           viewVars, drawVars, pendVars, now, geomVars>>
       ELSE IF file.size > MAX_FILE_SIZE
       THEN /\ alert("Image file is too large. Please use an image smaller than 50MB.")
            /\ UNCHANGED <<chatVars, pageVars, originalImage, loads, toolVars,
                           viewVars, drawVars, pendVars, now, geomVars>>
       ELSE /\ loadImage(file.image, TRUE)
            /\ UNCHANGED <<selectedId, pageVars, originalImage, alertMessage, toolVars,
                           viewVars, drawVars, pendVars, now, geomVars>>
            /\ ChatEffect(FALSE)

\* onChange of the file input with a file chosen
handleFileUpload(file) ==
    /\ IF ~ StartsWithImage(file.type)
       THEN /\ alert("Please upload an image file (JPEG, PNG, GIF, etc.)")
            /\ UNCHANGED <<storeVars, chatVars, pageVars, originalImage, loads, toolVars,
                           viewVars, drawVars, pendVars, now, geomVars>>
       ELSE IF file.size > MAX_FILE_SIZE
       THEN /\ alert("Image file is too large. Please use an image smaller than 50MB.")
            /\ UNCHANGED <<storeVars, chatVars, pageVars, originalImage, loads, toolVars,
                           viewVars, drawVars, pendVars, now, geomVars>>
       ELSE /\ handleClearAnnotations
            /\ loadImage(file.image, TRUE)
            /\ UNCHANGED <<selectedId, pageVars, originalImage, alertMessage, toolVars,
                           viewVars, drawVars, pendVars, now, geomVars>>
            /\ ChatEffect(FALSE)

\* reader.onload: the data URL becomes img.src
ReaderOnload(k) ==
    /\ k \in DOMAIN loads
    /\ loads[k].stage = "reading"
    /\ loads' = [loads EXCEPT ![k].stage = "decoding"]
    /\ UNCHANGED <<storeVars, chatVars, pageVars, originalImage, alertMessage, toolVars,
                   viewVars, drawVars, pendVars, now, geomVars>>

\* Variant that drops the working image when a load fails, for comparison
LoadError_dropImage(k) ==
    /\ k \in DOMAIN loads
    /\ loads[k].stage \in {"reading", "decoding"}
    /\ loads' = RemoveAt(loads, k)
    /\ originalImage' = Null
    /\ IF loads[k].stage = "reading"
       THEN alert("Failed to read file. Please try a different image.")
       ELSE alert("Failed to load image. Please try a different file.")
    /\ UNCHANGED <<storeVars, chatVars, pageVars, toolVars, viewVars,
                   drawVars, pendVars, now, geomVars>>

\* reader.onerror, img.onerror: a message, and the load ends
LoadError(k) ==
    /\ k \in DOMAIN loads
    /\ loads[k].stage \in {"reading", "decoding"}
    /\ loads' = RemoveAt(loads, k)
    /\ IF loads[k].stage = "reading"
       THEN alert("Failed to read file. Please try a different image.")
       ELSE alert("Failed to load image. Please try a different file.")
    /\ UNCHANGED <<storeVars, chatVars, pageVars, originalImage, toolVars, viewVars,
                   drawVars, pendVars, now, geomVars>>

(***************************************************************************)
(* JavaScript numbers in the downscale computation: IEEE-754 doubles, a    *)
(* positive double being sig * 2^exp with sig a sequence of bits, the most *)
(* significant first, of 53 bits after a rounding.                         *)
(***************************************************************************)
\* The bits of a natural number, most significant first
RECURSIVE Bits(_)
Bits(n) == IF n = 0 THEN <<>> ELSE Append(Bits(n \div 2), n % 2)

\* The natural number of a sequence of bits
RECURSIVE BitsValue(_)
BitsValue(s) ==
    IF s = <<>> THEN 0 ELSE 2 * BitsValue(SubSeq(s, 1, Len(s) - 1)) + s[Len(s)]

RECURSIVE Pow2(_)
Pow2(k) == IF k = 0 THEN 1 ELSE 2 * Pow2(k - 1)

\* s + 1 on bits with the least significant first
RECURSIVE IncLSB(_)
IncLSB(s) ==
    IF s = <<>> THEN <<1>>
    ELSE IF Head(s) = 0 THEN <<1>> \o Tail(s)
    ELSE <<0>> \o IncLSB(Tail(s))

\* A significand rounded up by one unit in the last place
SigUp(sig) == Reverse(IncLSB(Reverse(sig)))

\* A significand of 54 bits after a round-up (1 and zeros) is cut back to 53
Normalize(sig, exp) ==
    IF Len(sig) > 53
    THEN [sig |-> SubSeq(sig, 1, 53), exp |-> exp + (Len(sig) - 53)]
    ELSE [sig |-> sig, exp |-> exp]

\* The shift that brings a up to b: the least z with a * 2^z >= b
RECURSIVE LeadShift(_, _)
LeadShift(a, b) == IF a >= b THEN 0 ELSE 1 + LeadShift(2 * a, b)

\* Long division: k more quotient bits of r / b after the bits acc, and the
\* remainder left
RECURSIVE DivBits(_, _, _, _)
DivBits(acc, r, b, k) ==
    IF k = 0 THEN [bits |-> acc, rem |-> r]
    ELSE IF 2 * r >= b
         THEN DivBits(Append(acc, 1), 2 * r - b, b, k - 1)
         ELSE DivBits(Append(acc, 0), 2 * r, b, k - 1)

\* a / b for positive integers a, b: the quotient to 53 significant bits, rounded
\* to nearest, ties to even
NumDiv(a, b) ==
    LET z    == LeadShift(a, b)
        a2   == a * Pow2(z)
        hi   == Bits(a2 \div b)
        k    == 53 - Len(hi)
        d    == DivBits(hi, a2 % b, b, k)
        up   == \/ 2 * d.rem > b
                \/ 2 * d.rem = b /\ d.bits[53] = 1
    IN  Normalize(IF up THEN SigUp(d.bits) ELSE d.bits, 0 - (z + k))

\* n * s on bits with the least significant first
RECURSIVE MulLSB(_, _, _)
MulLSB(s, n, carry) ==
    IF s = <<>> THEN Reverse(Bits(carry))
    ELSE LET t == n * Head(s) + carry
         IN  <<t % 2>> \o MulLSB(Tail(s), n, t \div 2)

\* n * x for a positive integer n and a double x: the exact product rounded to 53
\* significant bits, to nearest, ties to even
NumMul(n, x) ==
    LET p == Reverse(MulLSB(Reverse(x.sig), n, 0))
        L == Len(p)
    IN  IF L <= 53 THEN [sig |-> p, exp |-> x.exp]
        ELSE LET kept   == SubSeq(p, 1, 53)
                 half   == p[54] = 1
                 sticky == \E i \in 55..L : p[i] = 1
                 up     == half /\ (sticky \/ kept[53] = 1)
             IN  Normalize(IF up THEN SigUp(kept) ELSE kept, x.exp + (L - 53))

\* x < y for doubles of 53 significant bits
NumLt(x, y) ==
    \/ x.exp < y.exp
    \/ /\ x.exp = y.exp
       /\ \E i \in 1..53 : x.sig[i] < y.sig[i] /\ \A j \in 1..(i - 1) : x.sig[j] = y.sig[j]

MathMin(x, y) == IF NumLt(y, x) THEN y ELSE x

\* Math.floor(x) of a double below 2^31
MathFloor(x) ==
    IF x.exp >= 0 THEN BitsValue(x.sig) * Pow2(x.exp)
    ELSE BitsValue(SubSeq(x.sig, 1, Len(x.sig) + x.exp))

\* The size img.onload downscales to: with
\* scale = Math.min(MAX / width, MAX / height), Math.floor(width * scale) by
\* Math.floor(height * scale)
DownscaledSize(w, h) ==
    LET scale == MathMin(NumDiv(MAX_CANVAS_DIMENSION, w), NumDiv(MAX_CANVAS_DIMENSION, h))
    IN  [width  |-> MathFloor(NumMul(w, scale)),
         height |-> MathFloor(NumMul(h, scale))]

NeedsDownscale(img) ==
    img.width > MAX_CANVAS_DIMENSION \/ img.height > MAX_CANVAS_DIMENSION

\* Variant that installs the image of the latest request only, for comparison
ImgOnload_latestOnly(k, ctxOk) ==
    /\ k \in DOMAIN loads
    /\ loads[k].stage = "decoding"
    /\ IF NeedsDownscale(loads[k].img) /\ ctxOk
       THEN /\ loads' = [loads EXCEPT ![k].stage = "blob"]
            /\ UNCHANGED originalImage
       ELSE /\ originalImage' = IF k = Len(loads) THEN loads[k].img ELSE originalImage
            /\ loads' = RemoveAt(loads, k)
    /\ UNCHANGED <<storeVars, chatVars, pageVars, alertMessage, toolVars, viewVars, drawVars,
                   pendVars, now, geomVars>>

\* img.onload; ctxOk: the temporary canvas gave a 2D context
ImgOnload(k, ctxOk) ==
    /\ k \in DOMAIN loads
    /\ loads[k].stage = "decoding"
    /\ IF NeedsDownscale(loads[k].img) /\ ctxOk
       THEN /\ loads' = [loads EXCEPT ![k].stage = "blob"]
            /\ UNCHANGED originalImage
       ELSE /\ originalImage' = loads[k].img
            /\ loads' = RemoveAt(loads, k)
    /\ UNCHANGED <<storeVars, chatVars, pageVars, alertMessage, toolVars, viewVars, drawVars,
                   pendVars, now, geomVars>>

\* toBlob's callback; blobOk: it got a blob
ToBlobCallback(k, blobOk) ==
    /\ k \in DOMAIN loads
    /\ loads[k].stage = "blob"
    /\ IF blobOk
       THEN /\ loads' = [loads EXCEPT ![k].stage = "redecode"]
            /\ UNCHANGED originalImage
       ELSE /\ originalImage' = loads[k].img
            /\ loads' = RemoveAt(loads, k)
    /\ UNCHANGED <<storeVars, chatVars, pageVars, alertMessage, toolVars, viewVars, drawVars,
                   pendVars, now, geomVars>>

\* downscaledImg.onload (ok) or .onerror
DownscaledDone(k, ok) ==
    /\ k \in DOMAIN loads
    /\ loads[k].stage = "redecode"
    /\ originalImage' =
          IF ok
          THEN LET size == DownscaledSize(loads[k].img.width, loads[k].img.height)
               IN  Image(loads[k].img.src, size.width, size.height)
          ELSE loads[k].img
    /\ loads' = RemoveAt(loads, k)
    /\ UNCHANGED <<storeVars, chatVars, pageVars, alertMessage, toolVars, viewVars, drawVars,
                   pendVars, now, geomVars>>

(***************************************************************************)
(* Wheel pan and zoom (AnnotationEditor.tsx)                               *)
(***************************************************************************)
MAX_OVERSHOOT == 200

\* Variant with a lower limit of 0.25, for comparison
ZoomScale_quarter(scale, deltaY) ==
    RMax(Frac(1, 4), RMin(R(5), RSub(scale, Frac(deltaY * 2, 1000))))

\* The zoom branch: scale - deltaY * 0.002, clamped to [0.5, 5.0]
ZoomScale(scale, deltaY) ==
    RMax(Frac(1, 2), RMin(R(5), RSub(scale, Frac(deltaY * 2, 1000))))

\* Variant that resists a delta toward the bound too, for comparison
PanAxis_bothWays(prev, lo, hi, d) ==
    LET overshoot  == IF RLt(prev, lo) THEN RSub(lo, prev)
                      ELSE IF RLt(hi, prev) THEN RSub(prev, hi)
                      ELSE R(0)
        resistance == RMax(R(0), RSub(R(1), RDiv(overshoot, R(MAX_OVERSHOOT))))
    IN  RAdd(prev, RMul(R(d), resistance))

\* The pan branch on one axis: the offset after a wheel delta d = -e.delta
PanAxis(prev, lo, hi, d) ==
    LET overshoot  == IF RLt(prev, lo) THEN RSub(lo, prev)
                      ELSE IF RLt(hi, prev) THEN RSub(prev, hi)
                      ELSE R(0)
        resistance == RMax(R(0), RSub(R(1), RDiv(overshoot, R(MAX_OVERSHOOT))))
        outward    == \/ RLt(hi, prev) /\ d > 0
                      \/ RLt(prev, lo) /\ d < 0
    IN  RAdd(prev, IF outward THEN RMul(R(d), resistance) ELSE R(d))

\* Variant that leaves the pending timeout running, for comparison
clearTimeout_keep(pending, timeouts) == timeouts

\* clearTimeout(wheelTimeoutRef.current): the ref holds the timeout set last, which
\* is the last of the pending ones if it has not fired
clearTimeout(pending, timeouts) ==
    IF pending THEN SubSeq(timeouts, 1, Len(timeouts) - 1) ELSE timeouts

\* onWheel of the container
onWheel(e) ==
    /\ transform' =
          IF e.ctrlKey \/ e.metaKey
          THEN [transform EXCEPT !.scale = ZoomScale(transform.scale, e.deltaY)]
          ELSE LET bounds == getBounds(transform.scale, originalImage,
                                       ContainerSize(panelOpen))
               IN  [transform EXCEPT
                      !.x = PanAxis(transform.x, bounds.minX, bounds.maxX, 0 - e.deltaX),
                      !.y = PanAxis(transform.y, bounds.minY, bounds.maxY, 0 - e.deltaY)]
    /\ isPanning' = TRUE
    /\ wheelTimer' = TRUE
    /\ wheelTimeouts' = Append(clearTimeout(wheelTimer, wheelTimeouts), 0)
    /\ UNCHANGED <<storeVars, selectedId, pageVars, imageVars, toolVars, drawVars,
                   pendVars, now, geomVars>>
    /\ ChatEffect(TRUE)

RClamp(v, lo, hi) == IF RLt(v, lo) THEN lo ELSE IF RLt(hi, v) THEN hi ELSE v

\* Variant that takes the bounds at the scale before the snap, for comparison
SettleFires_boundsBefore(k) ==
    /\ k \in DOMAIN wheelTimeouts
    /\ wheelTimeouts' = RemoveAt(wheelTimeouts, k)
    /\ wheelTimer' = (wheelTimer /\ k # Len(wheelTimeouts))
    /\ isPanning' = FALSE
    /\ LET targetScale == RClamp(transform.scale, R(1), R(3))
           finalBounds == getBounds(transform.scale, originalImage, ContainerSize(panelOpen))
       IN  transform' =
              IF targetScale = R(1)
              THEN [x |-> R(0), y |-> R(0), scale |-> targetScale]
              ELSE [x |-> RClamp(transform.x, finalBounds.minX, finalBounds.maxX),
                    y |-> RClamp(transform.y, finalBounds.minY, finalBounds.maxY),
                    scale |-> targetScale]
    /\ UNCHANGED <<storeVars, chatVars, pageVars, imageVars, toolVars, drawVars, pendVars,
                   now, geomVars>>

\* The callback of the pending settle timeout k runs
SettleFires(k) ==
    /\ k \in DOMAIN wheelTimeouts
    /\ wheelTimeouts' = RemoveAt(wheelTimeouts, k)
    /\ wheelTimer' = (wheelTimer /\ k # Len(wheelTimeouts))
    /\ isPanning' = FALSE
    /\ LET targetScale == RClamp(transform.scale, R(1), R(3))
           finalBounds == getBounds(targetScale, originalImage, ContainerSize(panelOpen))
       IN  transform' =
              IF targetScale = R(1)
              THEN [x |-> R(0), y |-> R(0), scale |-> targetScale]
              ELSE [x |-> RClamp(transform.x, finalBounds.minX, finalBounds.maxX),
                    y |-> RClamp(transform.y, finalBounds.minY, finalBounds.maxY),
                    scale |-> targetScale]
    /\ UNCHANGED <<storeVars, chatVars, pageVars, imageVars, toolVars, drawVars, pendVars,
                   now, geomVars>>

\* The settle timeout, 500 ms after the last wheel event
SettleTimeout == \E k \in DOMAIN wheelTimeouts : SettleFires(k)

SettleTicks == 2     \* ticks of the clock in the 500 ms of the settle timeout

\* Time passes: a tick for every pending settle timeout that is not yet due
TimePasses ==
    /\ \E k \in DOMAIN wheelTimeouts : wheelTimeouts[k] < SettleTicks
    /\ wheelTimeouts' = [k \in DOMAIN wheelTimeouts |->
                            Min(SettleTicks, wheelTimeouts[k] + 1)]
    /\ UNCHANGED <<storeVars, chatVars, pageVars, imageVars, toolVars, transform,
                   isPanning, wheelTimer, drawVars, pendVars, now, geomVars>>

\* The browser runs the callback of a settle timeout that has waited its 500 ms
DueSettle ==
    \E k \in DOMAIN wheelTimeouts : wheelTimeouts[k] >= SettleTicks /\ SettleFires(k)

\* A timeout is due: its callback removes it from the pending ones, so this is
\* ENABLED <<DueSettle>>_vars
DueGuard == \E k \in DOMAIN wheelTimeouts : wheelTimeouts[k] >= SettleTicks

\* The browser runs a timeout that stays due: WF_vars(DueSettle), with the
\* enabling condition written out
DueSettleFair == []<>(~ DueGuard) \/ []<><<DueSettle>>_vars

(***************************************************************************)
(* The initial state: after the mount effects                              *)
(***************************************************************************)
\* Annotations written to localStorage by an earlier session
StoredRect ==
    [id |-> toString(0), text |-> <<"a">>,
     highlight |-> DragRect(Pt(10, 10), Pt(100, 80), ColorAt(0)),
     color |-> ColorAt(0), timestamp |-> 0, replies |-> <<>>, completed |-> FALSE]

StoredBrush ==
    [id |-> toString(1), text |-> <<>>,
     highlight |-> [type |-> "brush",
                    strokes |-> << [points |-> <<Pt(120, 120), Pt(140, 120), Pt(140, 150)>>,
                                    brushSize |-> 20] >>,
                    opacity |-> 40, color |-> ColorAt(1)],
     color |-> ColorAt(1), timestamp |-> 1,
     replies |-> << [id |-> toString(1), text |-> <<"a">>, timestamp |-> 1] >>,
     completed |-> FALSE]

\* What localStorage may hold at startup
StoredItems ==
    {Null, Malformed, NonArray, JSONstringify(<<>>), JSONstringify(<<StoredRect>>),
     JSONstringify(<<[StoredRect EXCEPT !.completed = TRUE], StoredBrush>>)}

NoCustomPositions == [k \in {} |-> Null]

\* The editor and the page as mounted, the default image still loading
InitEditor ==
    /\ selectedId = Null
    /\ confirmingId = Null
    /\ panelOpen = FALSE
    /\ customChatPositions = NoCustomPositions
    /\ chatPosition = Null
    /\ reselectTimers = <<>>
    /\ originalImage = Null
    /\ loads = << [img |-> DefaultImage, stage |-> "decoding"] >>
    /\ alertMessage = Null
    /\ activeTool = "select"
    /\ brushSize = 20
    /\ brushOpacity = 40
    /\ showHighlights = TRUE
    /\ transform = [x |-> R(0), y |-> R(0), scale |-> R(1)]
    /\ isPanning = FALSE
    /\ wheelTimer = FALSE
    /\ wheelTimeouts = <<>>
    /\ isDrawing = FALSE
    /\ dragStart = Null
    /\ dragEnd = Null
    /\ brushPoints = <<>>
    /\ pendingStrokes = <<>>
    /\ showInput = FALSE
    /\ pendingHighlight = Null
    /\ inputText = <<>>
    /\ pendingColor = Null

\* The load effect and the auto-save effect of the first render, then the
\* auto-save effect of the render with the loaded list. The clock starts after
\* the earlier session's timestamps.
InitStore(item) ==
    /\ annotations = LoadAnnotations(item)
    /\ stored = IF LoadSets(item)
                THEN AutoSave(LoadAnnotations(item), AutoSave(<<>>, item))
                ELSE AutoSave(<<>>, item)
    /\ now = 2

GeomIdle ==
    /\ gMode = "idle"
    /\ gPoint = Pt(0, 0)
    /\ gStroke = [points |-> <<>>, brushSize |-> 20]
    /\ gAnns = <<>>
    /\ gNear = FALSE
    /\ gFound = Null

Init ==
    /\ \E item \in StoredItems : InitStore(item)
    /\ InitEditor
    /\ GeomIdle

\* A session over the annotations an earlier session left
InitSession ==
    /\ \E item \in StoredItems : LoadAnnotations(item) # <<>> /\ InitStore(item)
    /\ InitEditor
    /\ GeomIdle

(***************************************************************************)
(* Bounds and inputs                                                       *)
(***************************************************************************)
MaxAnnotations    == 2    \* annotations in the store
MaxReplies        == 2    \* replies in the store
MaxTime           == 1    \* milliseconds the clock advances
MaxTimers         == 1    \* pending reselect timeouts
MaxBrushPoints    == 3    \* points of a stroke being drawn
MaxPendingStrokes == 1    \* strokes staged at a time
MaxBrushStrokes   == 2    \* strokes staged at a time, with the brush resized

Clock == 2..(2 + MaxTime)

\* What a second Date.now() in the same handler may read
LaterReads == {t \in Clock : t = now \/ t = now + 1}

\* Texts typed in the popover's textarea and in the chat's input
Texts == {<<" ">>, <<" ", "a", " ">>}

\* Pointer positions, in canvas units
DownPoints == {Pt(10, 10), Pt(20, 95)}
MovePoints == {Pt(100, 80)}

\* The pointer positions of the page's sessions: a press below the stored rectangle
SessionDownPoints == {Pt(20, 95)}

\* Pointer positions of the brush gestures; the last one lies left of the canvas
EditorMovePoints == {Pt(100, 80), Pt(0 - 5, 20)}

\* Keys pressed outside the text inputs
Keys == {"b", "s"}

\* Positions the chat panel is dragged to
DragPositions == {[x |-> R(40), y |-> R(50)]}

\* Files chosen in the file input
Files ==
    {[type |-> <<"image", "png">>, size |-> 1024, image |-> Image("upload", 400, 500)],
     [type |-> <<"text", "plain">>, size |-> 1024, image |-> Null]}

\* Files for the loader on its own: at and over the size limit, and images over,
\* at and under the canvas limit
LoadFiles ==
    Files \cup
    {[type |-> <<"image", "jpeg">>, size |-> MAX_FILE_SIZE,
      image |-> Image("limit", 400, 500)],
     [type |-> <<"image", "png">>, size |-> MAX_FILE_SIZE + 1,
      image |-> Image("large", 400, 500)],
     [type |-> <<"image", "png">>, size |-> 4096, image |-> Image("wide", 12000, 8000)],
     [type |-> <<"image", "png">>, size |-> 4096, image |-> Image("odd", 8474, 4237)],
     [type |-> <<"image", "png">>, size |-> 4096, image |-> Image("tall", 5000, 10000)],
     [type |-> <<"image", "png">>, size |-> 4096, image |-> Image("square", 8192, 8192)]}

WheelEvents ==
    {[ctrlKey |-> TRUE,  metaKey |-> FALSE, deltaX |-> 0, deltaY |-> 250],
     [ctrlKey |-> FALSE, metaKey |-> FALSE, deltaX |-> 200, deltaY |-> 0]}

\* Wheel events for the viewport on its own: zoom in and out with Ctrl, zoom in
\* with Meta, pan either way on each axis
ViewWheelEvents ==
    {[ctrlKey |-> TRUE,  metaKey |-> FALSE, deltaX |-> 0,   deltaY |-> 1000],
     [ctrlKey |-> TRUE,  metaKey |-> FALSE, deltaX |-> 200, deltaY |-> 0 - 1000],
     [ctrlKey |-> FALSE, metaKey |-> TRUE,  deltaX |-> 0,   deltaY |-> 0 - 1000],
     [ctrlKey |-> FALSE, metaKey |-> FALSE, deltaX |-> 200, deltaY |-> 0],
     [ctrlKey |-> FALSE, metaKey |-> FALSE, deltaX |-> 0 - 200, deltaY |-> 0],
     [ctrlKey |-> FALSE, metaKey |-> FALSE, deltaX |-> 0, deltaY |-> 200],
     [ctrlKey |-> FALSE, metaKey |-> FALSE, deltaX |-> 0, deltaY |-> 0 - 200]}

(***************************************************************************)
(* The events of the page and of the editor                                *)
(***************************************************************************)
\* A click on a control: while a drawing gesture holds the mouse button down, the
\* next mouse event is the gesture's mouseup
Click(A) == ~ isDrawing /\ A

ClockStep == now + 1 \in Clock /\ Tick

GestureStep ==
    \/ \E p \in DownPoints : Click(handleMouseDown(p))
    \/ \E p \in MovePoints : handleWindowMouseMove(p)
    \/ handleWindowMouseUp

PopoverStep ==
    \/ \E t \in Texts : setInputText(t)
    \/ \E later \in LaterReads :
          Len(annotations) < MaxAnnotations /\ handleSaveAnnotation(later)
    \/ handleDiscard

PanelStep ==
    \/ Click(TogglePanel)
    \/ \E i \in DOMAIN annotations : Click(PanelSelect(i))
    \/ \E i \in DOMAIN annotations : Click(ConfirmStart(i))
    \/ \E i \in DOMAIN annotations : Click(ConfirmNo(i))
    \/ \E i \in DOMAIN annotations : Click(ConfirmYes(i))

RECURSIVE TotalReplies(_)
TotalReplies(anns) ==
    IF anns = <<>> THEN 0 ELSE Len(Head(anns).replies) + TotalReplies(Tail(anns))

ReplyStep ==
    \E t \in Texts, later \in LaterReads :
        /\ TotalReplies(annotations) < MaxReplies
        /\ handleSendReply(t, later)

ChatStep ==
    \/ Click(ChatClose)
    \/ Click(handleConfirmComplete)
    \/ ReplyStep

ChatMoveStep ==
    \/ \E pos \in DragPositions : Click(handleChatPositionChange(pos))
    \/ Len(reselectTimers) < MaxTimers /\ Click(handleResetChatPosition)
    \/ ReselectTimeout

LoadStep ==
    \/ \E f \in Files : Len(loads) < MaxLoads /\ Click(handleFileUpload(f))
    \/ \E k \in DOMAIN loads : ReaderOnload(k)
    \/ \E k \in DOMAIN loads : LoadError(k)
    \/ \E k \in DOMAIN loads : ImgOnload(k, TRUE)

ViewStep ==
    \/ Click(ToggleHighlights)
    \/ \E e \in WheelEvents : onWheel(e)
    \/ SettleTimeout

\* The page and the editor with the select tool: rectangles, notes, selection,
\* replies, completion, the chat panel, the view
Next ==
    \/ \E k \in DOMAIN loads : ImgOnload(k, TRUE)
    \/ \E p \in SessionDownPoints : Click(handleMouseDown(p))
    \/ \E p \in MovePoints : handleWindowMouseMove(p)
    \/ handleWindowMouseUp
    \/ PopoverStep
    \/ PanelStep
    \/ ChatStep
    \/ ChatMoveStep
    \/ ViewStep

Spec == InitSession /\ [][Next]_vars

\* The store and its persistence: notes, replies, completion, uploads, the clock
NextStore ==
    \/ ClockStep
    \/ DismissAlert
    \/ NoAlert /\ GestureStep
    \/ NoAlert /\ PopoverStep
    \/ NoAlert /\ ChatStep
    \/ NoAlert /\ LoadStep

SpecStore == Init /\ [][NextStore]_vars

\* The editor: both tools, the keys, the popover
NextEditor ==
    \/ \E k \in DOMAIN loads : ImgOnload(k, TRUE)
    \/ \E key \in Keys : handleKeyDown(key)
    \/ \E p \in DownPoints :
          /\ activeTool = "brush" => Len(pendingStrokes) < MaxPendingStrokes
          /\ Click(handleMouseDown(p))
    \/ \E p \in EditorMovePoints :
          Len(brushPoints) < MaxBrushPoints /\ handleWindowMouseMove(p)
    \/ handleWindowMouseUp
    \/ PopoverStep

SpecEditor == Init /\ [][NextEditor]_vars

\* The viewport: wheel zoom and pan, the settle timeout, with an annotation
\* selected or not and the side panel open or not
NextView ==
    \/ \E k \in DOMAIN loads : ImgOnload(k, TRUE)
    \/ \E e \in ViewWheelEvents : onWheel(e)
    \/ SettleTimeout
    \/ Click(TogglePanel)
    \/ \E i \in DOMAIN annotations : Click(PanelSelect(i))

SpecView == InitSession /\ [][NextView]_vars

\* The chat panel over a moving view: the viewport's events, and the panel
\* dragged by its header
NextChat ==
    \/ NextView
    \/ \E pos \in DragPositions : Click(handleChatPositionChange(pos))

SpecChat == InitSession /\ [][NextChat]_vars

\* Wheel events of a burst: zoom in, pan right
SettleWheelEvents == {e \in ViewWheelEvents : e.deltaX = 200}

\* The settle timeout in time: wheel events, the clock, the timeout when due
NextSettle ==
    \/ \E k \in DOMAIN loads : ImgOnload(k, TRUE)
    \/ \E e \in SettleWheelEvents : onWheel(e)
    \/ TimePasses
    \/ DueSettle
    \/ Click(TogglePanel)

\* Time passes, and the browser runs a timeout that is due
SpecSettle == Init /\ [][NextSettle]_vars /\ WF_vars(TimePasses) /\ DueSettleFair

\* Canvas pixels the pointer is put over: a corner region, the middle, the far edge
ImagePixels == {Pt(10, 10), Pt(250, 200), Pt(480, 390)}

\* A first session: nothing in localStorage
InitPointer ==
    /\ InitStore(Null)
    /\ InitEditor
    /\ GeomIdle

\* Gestures made with the pointer on the screen, over a view that zooms and pans
NextPointer ==
    \/ \E k \in DOMAIN loads : ImgOnload(k, TRUE)
    \/ \E e \in SettleWheelEvents : onWheel(e)
    \/ SettleTimeout
    \/ \E key \in Keys : handleKeyDown(key)
    \/ \E px \in ImagePixels :
          /\ activeTool = "brush" => Len(pendingStrokes) < MaxPendingStrokes
          /\ Click(MouseDownOver(px))
    \/ \E px \in ImagePixels : Len(brushPoints) < MaxBrushPoints /\ MouseMoveOver(px)
    \/ handleWindowMouseUp
    \/ handleDiscard

SpecPointer == InitPointer /\ [][NextPointer]_vars

\* Keys of the brush: the tool, a smaller brush, a larger brush
BrushKeys == {"b", "[", "]"}

\* Brush strokes with the brush resized from the keyboard, also during a drag
NextBrush ==
    \/ \E k \in DOMAIN loads : ImgOnload(k, TRUE)
    \/ \E key \in BrushKeys : handleKeyDown(key)
    \/ \E p \in DownPoints :
          /\ activeTool = "brush" => Len(pendingStrokes) < MaxBrushStrokes
          /\ Click(handleMouseDown(p))
    \/ \E p \in MovePoints :
          Len(brushPoints) < MaxBrushPoints /\ handleWindowMouseMove(p)
    \/ handleWindowMouseUp
    \/ handleDiscard

SpecBrush == Init /\ [][NextBrush]_vars

\* The loader: uploads, the callbacks of a load on each of its paths, gestures
\* that stage a highlight meanwhile
NextLoad ==
    \/ DismissAlert
    \/ NoAlert /\ \E f \in LoadFiles :
          Len(loads) < MaxLoads /\ Click(handleFileUpload(f))
    \/ NoAlert /\ \E k \in DOMAIN loads : ReaderOnload(k)
    \/ NoAlert /\ \E k \in DOMAIN loads : LoadError(k)
    \/ NoAlert /\ \E k \in DOMAIN loads, ctxOk \in BOOLEAN : ImgOnload(k, ctxOk)
    \/ NoAlert /\ \E k \in DOMAIN loads, blobOk \in BOOLEAN : ToBlobCallback(k, blobOk)
    \/ NoAlert /\ \E k \in DOMAIN loads, ok \in BOOLEAN : DownscaledDone(k, ok)
    \/ NoAlert /\ GestureStep
    \/ NoAlert /\ Click(handleDiscard)

SpecLoad == Init /\ [][NextLoad]_vars

\* Files uploaded one after the other
RaceFiles ==
    {[type |-> <<"image", "png">>, size |-> 1024, image |-> Image("first", 400, 500)],
     [type |-> <<"image", "png">>, size |-> 1024, image |-> Image("second", 640, 480)],
     [type |-> <<"image", "png">>, size |-> 4096, image |-> Image("wide", 12000, 8000)]}

MaxOverlap == 2    \* image loads in flight at a time, when loads overlap

\* Uploads that overlap, in a session over stored annotations: the callbacks of
\* the loads in flight, in any order, every load succeeding
NextRace ==
    \/ \E f \in RaceFiles : Len(loads) < MaxOverlap /\ Click(handleFileUpload(f))
    \/ \E k \in DOMAIN loads : ReaderOnload(k)
    \/ \E k \in DOMAIN loads, ctxOk \in BOOLEAN : ImgOnload(k, ctxOk)
    \/ \E k \in DOMAIN loads, blobOk \in BOOLEAN : ToBlobCallback(k, blobOk)
    \/ \E k \in DOMAIN loads, ok \in BOOLEAN : DownscaledDone(k, ok)

SpecRace == InitSession /\ [][NextRace]_vars

(***************************************************************************)
(* The hit-testing functions on their own                                  *)
(***************************************************************************)
\* The inputs: a probe point with a stroke, or with a list of annotations
InitGeom ==
    /\ InitStore(Null)
    /\ InitEditor
    /\ gPoint \in ProbePoints
    /\ \/ gMode = "stroke" /\ gStroke \in GStrokes /\ gAnns = <<>>
       \/ gMode = "list" /\ gStroke = [points |-> <<>>, brushSize |-> 20]
                         /\ gAnns \in GAnnLists
    /\ gNear = FALSE
    /\ gFound = Null

ProbeStroke ==
    /\ gMode = "stroke"
    /\ gMode' = "near"
    /\ gNear' = isPointNearStroke(gPoint, gStroke)
    /\ UNCHANGED <<storeVars, chatVars, pageVars, imageVars, toolVars, viewVars, drawVars,
                   pendVars, now, gPoint, gStroke, gAnns, gFound>>

ProbeList ==
    /\ gMode = "list"
    /\ gMode' = "found"
    /\ gFound' = findAnnotationAtPoint(gPoint, gAnns)
    /\ UNCHANGED <<storeVars, chatVars, pageVars, imageVars, toolVars, viewVars, drawVars,
                   pendVars, now, gPoint, gStroke, gAnns, gNear>>

NextGeom ==
    \/ ProbeStroke
    \/ ProbeList

SpecGeom == InitGeom /\ [][NextGeom]_vars

(***************************************************************************)
(* C1: findAnnotationAtPoint                                               *)
(***************************************************************************)
\* The hit test of the claim: a rectangle is the closed region
\* [x, x+width] x [y, y+height], a brush passes when the point is near one of its
\* strokes
C1_Passes(p, h) ==
    IF h.type = "rect"
    THEN p.x \in h.x..(h.x + h.width) /\ p.y \in h.y..(h.y + h.height)
    ELSE \E k \in DOMAIN h.strokes : isPointNearStroke(p, h.strokes[k])

\* The positions of the list whose annotation is not completed and passes at p
C1_Hits(p, anns) == {i \in DOMAIN anns : ~ anns[i].completed /\ C1_Passes(p, anns[i].highlight)}

\* C1: findAnnotationAtPoint(p, annotations) is the annotation latest in list order
\* among the non-completed annotations that pass their hit test at p, and is null
\* exactly when no non-completed annotation passes; a completed annotation is never
\* returned.
C1_LatestActiveHit ==
    gMode = "found" =>
        IF C1_Hits(gPoint, gAnns) = {}
        THEN gFound = Null
        ELSE /\ gFound = gAnns[SetMax(C1_Hits(gPoint, gAnns))]
             /\ ~ gFound.completed

\* Two active annotations overlap at the point, on the edge of the older one, and
\* the later one is found
C1_Witness ==
    /\ gMode = "found"
    /\ Len(gAnns) = 2
    /\ C1_Hits(gPoint, gAnns) = {1, 2}
    /\ gAnns[1].highlight.type = "rect"
    /\ gPoint.x = gAnns[1].highlight.x + gAnns[1].highlight.width
    /\ gFound = gAnns[2]

(***************************************************************************)
(* C2: isPointNearStroke                                                   *)
(***************************************************************************)
\* The squared distance from p to the segment a-b, as a fraction: to a when the
\* segment has no length or the projection falls before a, to b when it falls after
\* b, else the squared distance to the line through a and b
C2_SegmentDistance2(p, a, b) ==
    LET ux == b.x - a.x
        uy == b.y - a.y
        vx == p.x - a.x
        vy == p.y - a.y
        len2 == ux * ux + uy * uy
        proj == vx * ux + vy * uy
        cross == vx * uy - vy * ux
    IN  IF len2 = 0 \/ proj <= 0 THEN [num |-> vx * vx + vy * vy, den |-> 1]
        ELSE IF proj >= len2
             THEN [num |-> (p.x - b.x) * (p.x - b.x) + (p.y - b.y) * (p.y - b.y), den |-> 1]
             ELSE [num |-> cross * cross, den |-> len2]

\* Some segment between consecutive points of s lies within s.brushSize/2 + 5 of p
\* (squared: 4 * dist^2 <= (brushSize + 10)^2)
C2_WithinReach(p, s) ==
    \E i \in 1..(Len(s.points) - 1) :
        LET d == C2_SegmentDistance2(p, s.points[i], s.points[i + 1])
        IN  4 * d.num <= (s.brushSize + 10) * (s.brushSize + 10) * d.den

\* C2: isPointNearStroke(P, S) is true if and only if the distance from P to at
\* least one segment between consecutive points of S is at most S.brushSize/2 + 5,
\* the threshold included.
C2_NearIffWithinThreshold ==
    gMode = "near" => (gNear <=> C2_WithinReach(gPoint, gStroke))

\* A point exactly brushSize/2 + 5 = 10 away from the only segment is near
C2_Witness ==
    /\ gMode = "near"
    /\ gPoint = Pt(10, 10)
    /\ gStroke = [points |-> <<Pt(0, 0), Pt(20, 0)>>, brushSize |-> 10]
    /\ gNear

(***************************************************************************)
(* C3: a select-tool drag, then Save                                       *)
(***************************************************************************)
\* The rectangle spanned by the corners a and b
C3_Rect(a, b) ==
    [x      |-> IF a.x <= b.x THEN a.x ELSE b.x,
     y      |-> IF a.y <= b.y THEN a.y ELSE b.y,
     width  |-> IF a.x <= b.x THEN b.x - a.x ELSE a.x - b.x,
     height |-> IF a.y <= b.y THEN b.y - a.y ELSE a.y - b.y]

\* r is t without the spaces at its ends
C3_IsTrimOf(r, t) ==
    /\ r = <<>> \/ (r[1] # " " /\ r[Len(r)] # " ")
    /\ \E i \in 0..Len(t) :
          /\ i + Len(r) <= Len(t)
          /\ \A k \in 1..i : t[k] = " "
          /\ \A k \in 1..Len(r) : t[i + k] = r[k]
          /\ \A k \in (i + Len(r) + 1)..Len(t) : t[k] = " "

\* The release of the drag from dragStart to dragEnd staged their rectangle and
\* opened the popover, with no stroke staged
C3_Staged ==
    /\ pendingHighlight' # Null
    /\ pendingHighlight'.type = "rect"
    /\ [f \in {"x", "y", "width", "height"} |-> pendingHighlight'[f]]
          = C3_Rect(dragStart, dragEnd)
    /\ showInput'
    /\ pendingStrokes' = <<>>

\* Save appended one annotation with the staged rectangle and the trimmed text
C3_Saved ==
    /\ Len(annotations') = Len(annotations) + 1
    /\ \A i \in DOMAIN annotations : annotations'[i] = annotations[i]
    /\ LET new == annotations'[Len(annotations')]
       IN  /\ new.highlight = pendingHighlight
           /\ C3_IsTrimOf(new.text, inputText)
           /\ new.completed = FALSE
           /\ new.replies = <<>>

\* C3: a select-tool drag from A to B that stages a rectangle stages the rectangle
\* {min(Ax,Bx), min(Ay,By), |Ax-Bx|, |Ay-By|}, and Save on the staged rectangle
\* (no stroke drawn in between) leaves the store with exactly one more annotation,
\* appended at the end, with that rectangle, the trimmed typed text,
\* completed = false and replies = []; every earlier annotation is unchanged and
\* keeps its position.
C3_DragThenSave ==
    /\ (isDrawing /\ activeTool = "select" /\ dragStart # Null /\ dragEnd # Null) =>
          ~ ENABLED (/\ handleWindowMouseUp
                     /\ pendingHighlight' # pendingHighlight
                     /\ ~ C3_Staged)
    /\ (showInput /\ pendingHighlight # Null /\ pendingStrokes = <<>>) =>
          \A later \in LaterReads :
              /\ ENABLED handleSaveAnnotation(later)
              /\ ~ ENABLED (handleSaveAnnotation(later) /\ ~ C3_Saved)

\* The drag (10,10)->(100,80) was saved with a note, then the drag
\* (20,95)->(0,20), up and to the left, was saved after it
C3_Witness ==
    /\ ~ showInput
    /\ Len(annotations) = 2
    /\ annotations[1].highlight.type = "rect"
    /\ [f \in {"x", "y", "width", "height"} |-> annotations[1].highlight[f]]
          = [x |-> 10, y |-> 10, width |-> 90, height |-> 70]
    /\ annotations[1].text = <<"a">>
    /\ annotations[1].id = toString(2)
    /\ annotations[2].highlight.type = "rect"
    /\ [f \in {"x", "y", "width", "height"} |-> annotations[2].highlight[f]]
          = [x |-> 0, y |-> 20, width |-> 20, height |-> 75]

(***************************************************************************)
(* C4: Save while something is staged                                      *)
(***************************************************************************)
\* Save appended one annotation, cleared what was staged and closed the popover
C4_Committed ==
    /\ Len(annotations') = Len(annotations) + 1
    /\ \A i \in DOMAIN annotations : annotations'[i] = annotations[i]
    /\ pendingHighlight' = Null
    /\ pendingStrokes' = <<>>
    /\ pendingColor' = Null
    /\ ~ showInput'

\* C4: in every reachable state in which the popover is open over a staged
\* rectangle or over at least one staged stroke, Save appends exactly one
\* annotation, clears the pending rectangle, strokes and color, and closes the
\* popover; it is never a no-op.
C4_SaveCommitsStaged ==
    (showInput /\ (pendingHighlight # Null \/ pendingStrokes # <<>>)) =>
        \A later \in LaterReads :
            /\ ENABLED handleSaveAnnotation(later)
            /\ ~ ENABLED (handleSaveAnnotation(later) /\ ~ C4_Committed)

(***************************************************************************)
(* C5: markComplete hides the annotation                                   *)
(***************************************************************************)
C5_Ids == {annotations[i].id : i \in DOMAIN annotations}

\* Points on the highlights of the sessions, and off them
C5_Points == DownPoints \cup SessionDownPoints \cup {Pt(130, 120), Pt(300, 300)}

\* The state after markComplete(id): the post-state of the step
C5_Hidden(id) ==
    /\ \A j \in DOMAIN FilterActive(annotations') : FilterActive(annotations')[j].id # id
    /\ \A show \in BOOLEAN :
          \A j \in DOMAIN DrawnHighlights(show, originalImage', annotations') :
              DrawnHighlights(show, originalImage', annotations')[j] # id
    /\ \A p \in C5_Points :
          LET found == findAnnotationAtPoint(p, annotations')
          IN  found = Null \/ found.id # id
    /\ selectedId = id => (selectedId' = Null /\ ~ chatVisible')
    /\ Len(annotations') = Len(annotations)
    /\ \A j \in DOMAIN annotations :
          annotations[j].id # id => annotations'[j] = annotations[j]

\* C5: after markComplete(id) the annotation with that id is not in the active
\* list, is not drawn for either value of showHighlights, is not returned by
\* hit-testing, the selection is cleared (and the chat panel closed) if it was the
\* selected one, and every annotation with another id is unchanged.
C5_MarkCompleteHides ==
    [][\A id \in C5_Ids : handleMarkComplete(id) => C5_Hidden(id)]_vars

\* The stored rectangle was completed from the side panel while the annotation
\* drawn in this session stays selected
C5_Witness ==
    /\ Len(annotations) = 2
    /\ annotations[1].id = toString(0)
    /\ annotations[1].completed
    /\ annotations[2].id # toString(1)
    /\ ~ annotations[2].completed
    /\ selectedId = annotations[2].id
    /\ chatVisible

(***************************************************************************)
(* C6: completed is terminal                                               *)
(***************************************************************************)
\* Every annotation that carries id is completed
C6_Completed(id) == \A i \in DOMAIN annotations : annotations[i].id = id => annotations[i].completed

\* A step keeps the flag of every completed annotation that stays in the store
C6_StaysCompleted ==
    \A i \in DOMAIN annotations :
        (annotations[i].completed /\ i \in DOMAIN annotations') => annotations'[i].completed

\* markComplete of an id that is completed changes nothing in the store
C6_SecondMarkIdle ==
    \A i \in DOMAIN annotations :
        C6_Completed(annotations[i].id) =>
            /\ ENABLED handleMarkComplete(annotations[i].id)
            /\ ~ ENABLED (/\ handleMarkComplete(annotations[i].id)
                          /\ <<annotations, stored>>' # <<annotations, stored>>)

\* C6: once an annotation is completed it is completed in every later state in
\* which it is still in the store, whatever the operation; and markComplete of an
\* already completed id leaves the whole store unchanged.
C6_CompletedIsTerminal ==
    /\ []C6_SecondMarkIdle
    /\ [][C6_StaysCompleted]_vars

\* The stored rectangle was completed in this session; then an annotation was
\* drawn over it, saved and replied to
C6_Witness ==
    /\ Len(annotations) = 2
    /\ annotations[1].id = toString(0)
    /\ annotations[1].completed
    /\ annotations[2].id # toString(1)
    /\ Len(annotations[2].replies) = 1

(***************************************************************************)
(* C7: replies are append-only                                             *)
(***************************************************************************)
C7_IsPrefix(s, t) == Len(s) <= Len(t) /\ \A k \in DOMAIN s : t[k] = s[k]

C7_Blank(t) == \A k \in DOMAIN t : t[k] = " "

\* A step keeps the replies of every annotation that stays in the store as a
\* prefix of its replies
C7_RepliesGrow ==
    \A i \in DOMAIN annotations :
        i \in DOMAIN annotations' =>
            C7_IsPrefix(annotations[i].replies, annotations'[i].replies)

\* addReply(id, t) with t not blank: one reply more at the end of the list of the
\* annotation id, which is otherwise unchanged, as is every other annotation
C7_Replied(id, t) ==
    /\ Len(annotations') = Len(annotations)
    /\ \A i \in DOMAIN annotations :
          IF annotations[i].id = id
          THEN /\ Len(annotations'[i].replies) = Len(annotations[i].replies) + 1
               /\ annotations'[i].replies[Len(annotations'[i].replies)].text = t
               /\ [annotations'[i] EXCEPT !.replies = annotations[i].replies]
                     = annotations[i]
          ELSE annotations'[i] = annotations[i]

\* A blank reply adds nothing
C7_BlankIdle ==
    chatVisible =>
        \A t \in Texts \cup {<<>>} :
            C7_Blank(t) =>
                /\ ENABLED handleSendReply(t, now)
                /\ ~ ENABLED (handleSendReply(t, now) /\ annotations' # annotations)

\* C7: the replies of an annotation in a later state have its replies of any
\* earlier state as a prefix; addReply(id, text) with non-blank text adds exactly
\* one reply at the end of the list of annotation id and changes no annotation
\* with another id; a blank reply adds nothing.
C7_RepliesAppendOnly ==
    /\ []C7_BlankIdle
    /\ [][/\ C7_RepliesGrow
          /\ \A t \in Texts, later \in Clock :
                (~ C7_Blank(t) /\ handleSendReply(t, later)) =>
                    C7_Replied(selectedAnnotation.id, t)]_vars

\* The stored brush annotation got a second reply after its first
C7_Witness ==
    /\ Len(annotations) = 2
    /\ annotations[2].id = toString(1)
    /\ Len(annotations[2].replies) = 2
    /\ annotations[2].replies[1].id = toString(1)
    /\ annotations[2].replies[2].text = <<" ", "a", " ">>

(***************************************************************************)
(* C8: ids                                                                 *)
(***************************************************************************)
\* C8: in every reachable state the ids of the annotations in the store are
\* pairwise distinct.
C8_IdsDistinct ==
    \A i, j \in DOMAIN annotations : i # j => annotations[i].id # annotations[j].id

(***************************************************************************)
(* C9: a committed annotation's highlight is immutable                     *)
(***************************************************************************)
C9_Committed(a) ==
    [id |-> a.id, text |-> a.text, highlight |-> a.highlight, color |-> a.color,
     timestamp |-> a.timestamp]

\* A step keeps every annotation in its place, with its id, text, highlight, color
\* and timestamp
C9_Kept ==
    /\ Len(annotations') >= Len(annotations)
    /\ \A i \in DOMAIN annotations : C9_Committed(annotations'[i]) = C9_Committed(annotations[i])

\* markComplete(id) changes the completed flag of the annotation id, nothing else
C9_OnlyFlag(id) ==
    /\ Len(annotations') = Len(annotations)
    /\ \A i \in DOMAIN annotations :
          IF annotations[i].id = id
          THEN [annotations'[i] EXCEPT !.completed = annotations[i].completed]
                  = annotations[i]
          ELSE annotations'[i] = annotations[i]

\* addReply(id, ..) changes the replies of the annotation id, nothing else
C9_OnlyReplies(id) ==
    /\ Len(annotations') = Len(annotations)
    /\ \A i \in DOMAIN annotations :
          IF annotations[i].id = id
          THEN [annotations'[i] EXCEPT !.replies = annotations[i].replies] = annotations[i]
          ELSE annotations'[i] = annotations[i]

\* C9: markComplete, addReply, selection changes, chat repositioning and reset,
\* the highlight toggle and wheel pan, zoom and settle leave the id, text,
\* highlight, color and timestamp of every annotation in the store unchanged;
\* markComplete(id) changes only the completed flag of annotation id and
\* addReply(id, ..) only its replies.
C9_HighlightImmutable ==
    [][/\ C9_Kept
       /\ \A id \in C5_Ids : handleMarkComplete(id) => C9_OnlyFlag(id)
       /\ \A t \in Texts, later \in Clock :
             handleSendReply(t, later) => C9_OnlyReplies(selectedAnnotation.id)]_vars

\* The stored brush annotation was replied to and completed, its chat panel
\* dragged, the highlights hidden and the view zoomed out
C9_Witness ==
    /\ Len(annotations) = 2
    /\ annotations[2].id = toString(1)
    /\ annotations[2].completed
    /\ Len(annotations[2].replies) = 2
    /\ customChatPositions # NoCustomPositions
    /\ ~ showHighlights
    /\ transform.scale = Frac(1, 2)
    /\ transform.x # R(0)

(***************************************************************************)
(* C10: persistence                                                        *)
(***************************************************************************)
\* C10: every change of the annotation list (add, markComplete, addReply, clearing
\* on image upload) is written to the persistent store: after the step the
\* persisted list is the list in memory.
C10_EveryChangeWritten ==
    [][annotations' # annotations => stored' = JSONstringify(annotations')]_vars

(***************************************************************************)
(* C11: an upload that is not an image, or is over 50MB                    *)
(***************************************************************************)
\* The files the claim rejects: a MIME type that does not start with image/, or
\* more than 50MB
C11_Rejected(f) == f.type[1] # "image" \/ f.size > 50 * 1024 * 1024

\* Nothing but the message box changes
C11_NoStateChange ==
    UNCHANGED <<storeVars, chatVars, pageVars, originalImage, loads, toolVars, viewVars,
                drawVars, pendVars, now>>

\* C11: an upload whose MIME type does not start with image/, or whose size is
\* over 50MB, shows a message and changes nothing else: the annotation list, its
\* persisted copy, the working image and the pending highlight are as before and
\* no load is started. Any other file, one of exactly 50MB included, is accepted:
\* no message, and its load is started.
C11_RejectedUploadIdle ==
    [][\A f \in LoadFiles :
          handleFileUpload(f) =>
             IF C11_Rejected(f)
             THEN alertMessage' # Null /\ C11_NoStateChange
             ELSE /\ alertMessage' = Null
                  /\ Len(loads') = Len(loads) + 1
                  /\ loads'[Len(loads')].img = f.image]_vars

\* The over-50MB message is on screen over a stored annotation, a working image
\* and a staged highlight
C11_Witness ==
    /\ alertMessage = [text |-> "Image file is too large. Please use an image smaller than 50MB."]
    /\ annotations # <<>>
    /\ originalImage # Null
    /\ pendingHighlight # Null
    /\ loads = <<>>

(***************************************************************************)
(* C12: a new image replaces the store                                     *)
(***************************************************************************)
\* The step installs an uploaded image as the working image
C12_UploadInstalled ==
    /\ originalImage' # originalImage
    /\ originalImage'.src # DefaultImage.src

\* C12: when an uploaded image becomes the working image the store holds no
\* annotation: every annotation in the store at that moment was created while an
\* earlier image was the working image, and the annotations added afterwards are
\* created on the new one.
C12_UploadReplacesStore ==
    [][C12_UploadInstalled => annotations' = <<>>]_vars

(***************************************************************************)
(* C13: a load that fails                                                  *)
(***************************************************************************)
C13_Messages ==
    {[text |-> "Failed to read file. Please try a different image."],
     [text |-> "Failed to load image. Please try a different file."]}

\* C13: when the read of an uploaded file or the decode of a requested image
\* fails, a message box is put on screen, the working image stays what it was
\* (the previous image, or none) and the load is over: it installs nothing later.
C13_FailedLoadKeepsImage ==
    [][\A k \in DOMAIN loads :
          LoadError(k) =>
             /\ alertMessage' \in C13_Messages
             /\ originalImage' = originalImage
             /\ loads' = RemoveAt(loads, k)]_vars

\* The read of an uploaded file has failed: the message is on screen, the default
\* image is still the working image and no load is in flight
C13_Witness ==
    /\ alertMessage = [text |-> "Failed to read file. Please try a different image."]
    /\ originalImage = DefaultImage
    /\ loads = <<>>

(***************************************************************************)
(* C14: the size an image is downscaled to                                 *)
(***************************************************************************)
\* The size the claim gives for a decoded image of w x h
C14_Target(w, h) ==
    IF w > 8192 \/ h > 8192
    THEN IF w >= h
         THEN [width |-> 8192, height |-> (h * 8192) \div w]
         ELSE [width |-> (w * 8192) \div h, height |-> 8192]
    ELSE [width |-> w, height |-> h]

\* The loads whose downscale canvas has been made
C14_Downscaling == {k \in DOMAIN loads : loads[k].stage \in {"blob", "redecode"}}

\* The canvas of every load being downscaled has the size the claim gives
C14_CanvasSize ==
    \A k \in C14_Downscaling :
        /\ loads[k].img.width > 8192 \/ loads[k].img.height > 8192
        /\ DownscaledSize(loads[k].img.width, loads[k].img.height)
              = C14_Target(loads[k].img.width, loads[k].img.height)

\* An image within the limit is installed as decoded
C14_SmallAsIs ==
    \A k \in DOMAIN loads, ctxOk \in BOOLEAN :
        (/\ ImgOnload(k, ctxOk)
         /\ loads[k].img.width <= 8192
         /\ loads[k].img.height <= 8192) => originalImage' = loads[k].img

\* C14: a decoded image of w x h with max(w, h) > 8192 is downscaled to a bitmap
\* whose larger dimension is 8192 and whose smaller dimension is the original
\* smaller dimension times 8192 / max(w, h), rounded down; an image with
\* max(w, h) <= 8192 is used at its original size.
C14_DownscaleTarget == []C14_CanvasSize /\ [][C14_SmallAsIs]_vars

\* The 12000x8000 image is downscaled to 8192x5461
C14_Example ==
    \A k \in C14_Downscaling :
        loads[k].img.src = "wide" =>
           DownscaledSize(loads[k].img.width, loads[k].img.height)
              = [width |-> 8192, height |-> 5461]

(***************************************************************************)
(* C15: the working image is never over the limit                          *)
(***************************************************************************)
\* C15: in every reachable state the working image, if there is one, has both
\* dimensions at most 8192, whichever way its load completed.
C15_WorkingImageWithinLimit ==
    originalImage # Null =>
       /\ originalImage.width <= 8192
       /\ originalImage.height <= 8192

(***************************************************************************)
(* C16: the range of the scale, and the zoom step                          *)
(***************************************************************************)
\* The scale is within [0.5, 5], and within [1, 3] at rest
C16_ScaleRange ==
    /\ RLe(Frac(1, 2), transform.scale)
    /\ RLe(transform.scale, R(5))
    /\ ~ isPanning => RLe(R(1), transform.scale) /\ RLe(transform.scale, R(3))

\* scale - deltaY * 0.002, then clamped to [0.5, 5]
C16_Zoomed(scale, deltaY) ==
    LET raw == RSub(scale, RMul(R(deltaY), Frac(2, 1000)))
    IN  IF RLt(raw, Frac(1, 2)) THEN Frac(1, 2)
        ELSE IF RLt(R(5), raw) THEN R(5)
        ELSE raw

\* A wheel event with Ctrl or Meta held sets the scale and keeps the pan offset
C16_ZoomStep ==
    \A e \in ViewWheelEvents :
        ((e.ctrlKey \/ e.metaKey) /\ onWheel(e)) =>
           /\ transform'.scale = C16_Zoomed(transform.scale, e.deltaY)
           /\ transform'.x = transform.x
           /\ transform'.y = transform.y

\* C16: the scale is in [0.5, 5.0] in every reachable state and in [1.0, 3.0]
\* whenever isPanning is false; a wheel event with Ctrl or Meta held changes the
\* scale by -deltaY * 0.002, clamped to [0.5, 5.0], and leaves the pan offset
\* unchanged.
C16_ScaleBounds == []C16_ScaleRange /\ [][C16_ZoomStep]_vars

\* A zoom out from a panned view was clamped at 0.5, the pan offset kept
C16_Witness ==
    /\ isPanning
    /\ transform.scale = Frac(1, 2)
    /\ transform.x # R(0)
    /\ transform.y # R(0)

(***************************************************************************)
(* C17: the resistance of a pan beyond the bounds                          *)
(***************************************************************************)
\* The displacement the claim gives on one axis for an offset prev, bounds
\* lo..hi and a delta d
C17_Applied(prev, lo, hi, d) ==
    LET overshoot == IF RLt(hi, prev) THEN RSub(prev, hi) ELSE RSub(lo, prev)
        beyond    == RLt(hi, prev) \/ RLt(prev, lo)
        outward   == (RLt(hi, prev) /\ d > 0) \/ (RLt(prev, lo) /\ d < 0)
        factor    == RSub(R(1), RDiv(overshoot, R(200)))
    IN  IF beyond /\ outward
        THEN IF RLe(R(200), overshoot) THEN R(0)
             ELSE RMul(R(d), IF RLt(factor, R(0)) THEN R(0) ELSE factor)
        ELSE R(d)

C17_Bounds == getBounds(transform.scale, originalImage, ContainerSize(panelOpen))

\* C17: a wheel event with neither Ctrl nor Meta moves the pan offset, on each
\* axis by itself, by the full delta when the offset is within its bounds or the
\* delta points back toward the bound, and by delta * max(0, 1 - overshoot/200)
\* when the offset is beyond its bound and the delta points further out: by
\* nothing once the overshoot is 200 or more.
C17_PanResistance ==
    [][\A e \in ViewWheelEvents :
          (~ e.ctrlKey /\ ~ e.metaKey /\ onWheel(e)) =>
             /\ transform'.x = RAdd(transform.x,
                                    C17_Applied(transform.x, C17_Bounds.minX,
                                                C17_Bounds.maxX, 0 - e.deltaX))
             /\ transform'.y = RAdd(transform.y,
                                    C17_Applied(transform.y, C17_Bounds.minY,
                                                C17_Bounds.maxY, 0 - e.deltaY))]_vars

\* The image is zoomed in and panned beyond its bounds on both axes: 200 past the
\* bound on y, where a further delta outward moves nothing, and less than 200 on x
C17_Witness ==
    /\ originalImage # Null
    /\ isPanning
    /\ RLt(R(1), transform.scale)
    /\ transform.y = RSub(C17_Bounds.minY, R(200))
    /\ RLt(C17_Bounds.maxX, transform.x)
    /\ RLt(transform.x, RAdd(C17_Bounds.maxX, R(200)))

(***************************************************************************)
(* C18: the settle                                                         *)
(***************************************************************************)
\* clamp(v, lo, hi)
C18_Clamp(v, lo, hi) == RMax(lo, RMin(hi, v))

\* The size of the fitted canvas at a scale; nothing is displayed without an image
C18_ScaledSize(scale) ==
    IF originalImage = Null
    THEN [width |-> R(0), height |-> R(0)]
    ELSE LET fit == DisplaySize(originalImage, ContainerSize(panelOpen))
         IN  [width |-> RMul(fit.width, scale), height |-> RMul(fit.height, scale)]

\* max(0, (scaledSize - containerSize) / 2) on each axis
C18_Overflow(scale) ==
    LET scaled    == C18_ScaledSize(scale)
        container == ContainerSize(panelOpen)
    IN  [x |-> RMax(R(0), RDiv(RSub(scaled.width, R(container.width)), R(2))),
         y |-> RMax(R(0), RDiv(RSub(scaled.height, R(container.height)), R(2)))]

\* The state the claim gives after the settle
C18_Settled ==
    LET settled == C18_Clamp(transform.scale, R(1), R(3))
        over    == C18_Overflow(settled)
    IN  /\ transform'.scale = settled
        /\ IF settled = R(1)
           THEN transform'.x = R(0) /\ transform'.y = R(0)
           ELSE /\ transform'.x = C18_Clamp(transform.x, RNeg(over.x), over.x)
                /\ transform'.y = C18_Clamp(transform.y, RNeg(over.y), over.y)
        /\ isPanning' = FALSE

\* C18: when the settle runs, the scale becomes clamp(scale, 1.0, 3.0); if that is
\* exactly 1.0 the pan offset becomes (0, 0) whatever it was; otherwise each pan
\* offset is clamped into +/- max(0, (scaledSize - containerSize) / 2) taken at
\* the settled scale; and isPanning becomes false.
C18_Settle == [][SettleTimeout => C18_Settled]_vars

\* The view has settled from beyond the bounds: at scale 3 with the pan offset on
\* its bound on x
C18_Witness ==
    /\ ~ isPanning
    /\ ~ wheelTimer
    /\ transform.scale = R(3)
    /\ transform.x = C18_Overflow(R(3)).x
    /\ transform.x # R(0)
    /\ transform.y # R(0)

(***************************************************************************)
(* C19: degenerate gestures                                                *)
(***************************************************************************)
\* A rectangle drag is being released with an extent under 10
C19_SmallDrag ==
    /\ activeTool = "select" /\ dragStart # Null /\ dragEnd # Null
    /\ \/ Abs(dragEnd.x - dragStart.x) < 10
       \/ Abs(dragEnd.y - dragStart.y) < 10

\* A brush gesture is being released with 2 recorded points or fewer
C19_ShortStroke == activeTool = "brush" /\ Len(brushPoints) <= 2

\* The release of such a gesture stages nothing and opens no popover
C19_ReleaseIdle ==
    (handleWindowMouseUp /\ (C19_SmallDrag \/ C19_ShortStroke)) =>
       UNCHANGED <<pendingHighlight, pendingStrokes, showInput>>

\* The highlight is no smaller than the claim allows
C19_BigEnough(highlight) ==
    IF highlight.type = "rect"
    THEN highlight.width >= 10 /\ highlight.height >= 10
    ELSE \A k \in DOMAIN highlight.strokes : Len(highlight.strokes[k].points) >= 3

\* An annotation added to the store has such a highlight
C19_SavedSizes ==
    Len(annotations') = Len(annotations) + 1 =>
       C19_BigEnough(annotations'[Len(annotations')].highlight)

\* C19: the release of a rectangle drag with an extent under 10 (a click without
\* a move included) and of a brush gesture of 2 recorded points or fewer stages
\* no highlight and opens no popover; every rectangle added to the store by Save
\* has a width and a height of at least 10 and every brush stroke added by Save
\* has at least 3 points.
C19_DegenerateDiscarded == [][C19_ReleaseIdle /\ C19_SavedSizes]_vars

\* A brush annotation of one three-point stroke has been saved in this session,
\* and a click without a move is about to be released with nothing staged
C19_Witness ==
    /\ annotations # <<>>
    /\ annotations[Len(annotations)].id \notin {toString(0), toString(1)}
    /\ annotations[Len(annotations)].highlight.type = "brush"
    /\ isDrawing
    /\ activeTool = "select"
    /\ dragStart # Null
    /\ dragEnd = dragStart
    /\ ~ showInput

(***************************************************************************)
(* C20: where the chat panel is put                                        *)
(***************************************************************************)
\* The highlight's bounding box in image pixels: a rectangle's own bounds; for a
\* brush the union, over all strokes, of every point inflated by brushSize/2
C20_PixelBox(highlight) ==
    IF highlight.type = "rect"
    THEN [left  |-> R(highlight.x), right |-> R(highlight.x + highlight.width),
          top   |-> R(highlight.y)]
    ELSE LET ends == UNION {{[lo |-> RSub(R(s.points[j].x), Frac(s.brushSize, 2)),
                              hi |-> RAdd(R(s.points[j].x), Frac(s.brushSize, 2)),
                              up |-> RSub(R(s.points[j].y), Frac(s.brushSize, 2))] :
                                j \in DOMAIN s.points} :
                            s \in {highlight.strokes[k] : k \in DOMAIN highlight.strokes}}
         IN  [left  |-> (CHOOSE e \in ends : \A o \in ends : RLe(e.lo, o.lo)).lo,
              right |-> (CHOOSE e \in ends : \A o \in ends : RLe(o.hi, e.hi)).hi,
              top   |-> (CHOOSE e \in ends : \A o \in ends : RLe(e.up, o.up)).up]

\* The box in container coordinates: the image is fitted into the container,
\* scaled about the container's center and moved by the pan offset
C20_Box(highlight, img, container, tr) ==
    LET fit   == DisplaySize(img, container)
        perX  == RDiv(RMul(fit.width, tr.scale), R(img.width))
        perY  == RDiv(RMul(fit.height, tr.scale), R(img.height))
        left0 == RAdd(RSub(Frac(container.width, 2),
                           RDiv(RMul(fit.width, tr.scale), R(2))), tr.x)
        top0  == RAdd(RSub(Frac(container.height, 2),
                           RDiv(RMul(fit.height, tr.scale), R(2))), tr.y)
        box   == C20_PixelBox(highlight)
    IN  [left  |-> RAdd(left0, RMul(box.left, perX)),
         right |-> RAdd(left0, RMul(box.right, perX)),
         top   |-> RAdd(top0, RMul(box.top, perY))]

\* The position the claim gives
C20_Expected(highlight, img, container, tr) ==
    LET box   == C20_Box(highlight, img, container, tr)
        right == RAdd(box.right, R(20))
        x     == IF RLe(RAdd(right, R(320)), R(container.width))
                 THEN right
                 ELSE RSub(RSub(box.left, R(320)), R(20))
        y     == IF RLt(box.top, R(20)) THEN R(20)
                 ELSE IF RLt(R(container.height - 300), box.top)
                      THEN R(container.height - 300)
                 ELSE box.top
    IN  [x |-> IF RLt(x, R(20)) THEN R(20) ELSE x, y |-> y]

\* The annotation selected after the step has no position of the user's
C20_AutoAfter ==
    /\ FindSelected(annotations', selectedId') # Null
    /\ FindSelected(annotations', selectedId').id \notin DOMAIN customChatPositions'
    /\ originalImage' # Null

\* C20: with no user override for the selected annotation, the chat position the
\* page computes is x = boxRight + 20 when boxRight + 20 + 320 does not exceed
\* the container's width and boxLeft - 320 - 20 otherwise, raised to 20 if it is
\* below 20, and y = boxTop clamped to [20, containerHeight - 300], the box being
\* the highlight's bounding box in container coordinates.
C20_AutoChatPosition ==
    [][(chatPosition' # chatPosition /\ C20_AutoAfter) =>
          chatPosition' = C20_Expected(FindSelected(annotations', selectedId').highlight,
                                       originalImage', ContainerSize(panelOpen'),
                                       transform')]_vars

\* The box of the selected annotation in the state
C20_BoxNow ==
    C20_Box(selectedAnnotation.highlight, originalImage, ContainerSize(panelOpen), transform)

\* The panel is at its computed position for the view as it is
C20_Fresh ==
    /\ selectedAnnotation # Null
    /\ selectedAnnotation.id \notin DOMAIN customChatPositions
    /\ originalImage # Null
    /\ chatPosition = C20_Expected(selectedAnnotation.highlight, originalImage,
                                   ContainerSize(panelOpen), transform)

\* The panel does not fit to the right of the box and is put to its left, held at
\* 20 from the container's left edge, and at the lower limit of y
C20_Witness ==
    /\ C20_Fresh
    /\ RLt(R(ContainerSize(panelOpen).width), RAdd(C20_BoxNow.right, R(340)))
    /\ RLt(RSub(C20_BoxNow.left, R(340)), R(20))
    /\ chatPosition.x = R(20)
    /\ RLt(R(ContainerSize(panelOpen).height - 300), C20_BoxNow.top)
    /\ chatPosition.y = R(ContainerSize(panelOpen).height - 300)

(***************************************************************************)
(* C21: a dragged chat position                                            *)
(***************************************************************************)
\* The chat position of a selected annotation with a recorded position is that
\* position
C21_OverrideShown ==
    (selectedAnnotation # Null /\ selectedAnnotation.id \in DOMAIN customChatPositions) =>
       chatPosition = customChatPositions[selectedAnnotation.id]

\* A recorded position goes away by Reset of the selected annotation only, which
\* also deselects it and sets the reselect timeout
C21_OnlyReset ==
    (\E id \in DOMAIN customChatPositions : id \notin DOMAIN customChatPositions') =>
       /\ selectedAnnotation # Null
       /\ handleResetChatPosition
       /\ DOMAIN customChatPositions' = DOMAIN customChatPositions \ {selectedAnnotation.id}
       /\ selectedId' = Null
       /\ chatPosition' = Null
       /\ reselectTimers' = Append(reselectTimers, selectedAnnotation.id)

\* The reselect timeout selects the annotation again; with no position recorded
\* since, a selection that changed is given the computed position
C21_Reselect ==
    ReselectTimeout =>
       /\ selectedId' = Head(reselectTimers)
       /\ (/\ selectedAnnotation' # Null
           /\ selectedAnnotation' # selectedAnnotation
           /\ selectedAnnotation'.id \notin DOMAIN customChatPositions'
           /\ originalImage' # Null) =>
             chatPosition' = C20_Expected(selectedAnnotation'.highlight, originalImage',
                                          ContainerSize(panelOpen'), transform')

\* C21: while a dragged position is recorded for an annotation id, the chat
\* position of that annotation, whenever it is selected, is the recorded one,
\* after selection changes, side panel toggles and view changes alike; the record
\* is removed only by Reset for that id, which deselects the annotation and
\* reselects it from a timeout, after which its chat position is the computed one.
C21_OverrideUntilReset == []C21_OverrideShown /\ [][C21_OnlyReset /\ C21_Reselect]_vars

\* The dragged position is shown with the side panel open and the view zoomed out
C21_Witness ==
    /\ selectedAnnotation # Null
    /\ selectedAnnotation.id \in DOMAIN customChatPositions
    /\ chatPosition = customChatPositions[selectedAnnotation.id]
    /\ panelOpen
    /\ isPanning
    /\ transform.scale = Frac(1, 2)

(***************************************************************************)
(* C22: how far past its bound a pan offset gets                           *)
(***************************************************************************)
\* The distance of an offset past the bounds lo..hi
C22_Overshoot(v, lo, hi) ==
    IF RLt(hi, v) THEN RSub(v, hi)
    ELSE IF RLt(v, lo) THEN RSub(lo, v)
    ELSE R(0)

\* C22: while the view is being panned or zoomed by the wheel, the pan offset is
\* never more than 200 past its bound, on either axis.
C22_OvershootBounded ==
    isPanning =>
       /\ RLe(C22_Overshoot(transform.x, C17_Bounds.minX, C17_Bounds.maxX), R(200))
       /\ RLe(C22_Overshoot(transform.y, C17_Bounds.minY, C17_Bounds.maxY), R(200))

\* One pan event of delta 1000 from the centered view at scale 1, where the
\* bounds are 0, stays within 200 of the bound
C22_OneLargeDelta ==
    RLe(C22_Overshoot(PanAxis(R(0), R(0), R(0), 1000), R(0), R(0)), R(200))

(***************************************************************************)
(* C23: the settle timeout                                                 *)
(***************************************************************************)
\* At most one settle timeout is pending, the one wheelTimeoutRef holds
C23_OnePending ==
    /\ Len(wheelTimeouts) <= 1
    /\ wheelTimer <=> wheelTimeouts # <<>>
    /\ isPanning <=> wheelTimeouts # <<>>

\* A wheel event leaves one timeout pending, which has waited no time
C23_Restart ==
    \A e \in SettleWheelEvents : onWheel(e) => wheelTimeouts' = <<0>>

\* The settle runs when the timeout set by the latest wheel event has waited its
\* 500 ms, and leaves no timeout pending and the view at rest
C23_NotEarly ==
    SettleTimeout =>
       /\ wheelTimer
       /\ wheelTimeouts[Len(wheelTimeouts)] >= SettleTicks
       /\ wheelTimeouts' = <<>>
       /\ ~ isPanning'

\* A wheel event has just set the timeout
C23_JustWheeled == wheelTimeouts = <<0>>

\* The view is at rest and no timeout is pending
C23_AtRest == ~ isPanning /\ wheelTimeouts = <<>>

\* C23: at most one settle timeout is pending at any time; every wheel event
\* cancels the pending one and starts a new one of 500 ms, so the settle never
\* runs less than 500 ms after the latest wheel event; and unless wheel events
\* keep coming for ever, the settle runs after the last one, once, and the view
\* stays at rest.
C23_SettleDebounced ==
    /\ []C23_OnePending
    /\ [][C23_Restart /\ C23_NotEarly]_vars
    /\ ([]<>C23_JustWheeled \/ <>[]C23_AtRest)

\* The view has settled after a burst that zoomed in to 5 and panned: it is at
\* rest at scale 3 with no timeout pending
C23_Witness ==
    /\ ~ isPanning
    /\ wheelTimeouts = <<>>
    /\ transform.scale = R(3)
    /\ transform.x # R(0)

(***************************************************************************)
(* C24: pointer positions and the viewport transform                       *)
(***************************************************************************)
\* The canvas pixels as screen-space numbers
C24_Native(px) == [x |-> R(px.x), y |-> R(px.y)]

\* The conversion gives the pixel under the pointer, whatever the transform
C24_SamePoint ==
    originalImage # Null =>
        \A px \in ImagePixels :
            getCanvasPos(PointerOver(px, originalImage, ContainerSize(panelOpen), transform),
                         originalImage, ContainerSize(panelOpen), transform)
                = C24_Native(px)

\* A press that starts a gesture records the pixel under the pointer
C24_DownRecorded ==
    \A px \in ImagePixels :
        MouseDownOver(px) /\ isDrawing' =>
            /\ activeTool = "select" => dragStart' = px /\ dragEnd' = px
            /\ activeTool = "brush" => brushPoints' = <<px>>

\* A move during the drag records the pixel under the pointer
C24_MoveRecorded ==
    \A px \in ImagePixels :
        MouseMoveOver(px) =>
            /\ activeTool = "select" /\ dragStart # Null => dragEnd' = px
            /\ activeTool = "brush" =>
                   brushPoints' # <<>> /\ brushPoints'[Len(brushPoints')] = px

\* C24 (as amended): pointer positions are converted from screen space to
\* canvas-native space with the canvas's live bounding rectangle, which carries the
\* wrapper's transform; for a pointer over a given canvas pixel, the point recorded
\* at mouse-down and during the drag is that pixel, the same for every pan offset
\* and zoom scale.
C24_TransformFree ==
    /\ []C24_SamePoint
    /\ [][C24_DownRecorded /\ C24_MoveRecorded]_vars

\* C24 (as stated): the conversion scales by the base, fit-to-container canvas
\* size, not by the live transformed size
C24_BaseSizeConversion ==
    originalImage # Null =>
        \A px \in ImagePixels :
            LET e == PointerOver(px, originalImage, ContainerSize(panelOpen), transform)
            IN  getCanvasPos(e, originalImage, ContainerSize(panelOpen), transform)
                  = getCanvasPos_baseSize(e, originalImage, ContainerSize(panelOpen),
                                          transform)

\* A rectangle dragged while zoomed in and panned: pressed over the middle pixel,
\* moved to the far one
C24_Witness ==
    /\ isDrawing
    /\ activeTool = "select"
    /\ transform.scale = R(3)
    /\ transform.x # R(0)
    /\ dragStart = Pt(250, 200)
    /\ dragEnd = Pt(480, 390)

(***************************************************************************)
(* C25: the automatic chat position and the view                           *)
(***************************************************************************)
\* The view at rest: no pan, no zoom
C25_BaseView == [x |-> R(0), y |-> R(0), scale |-> R(1)]

\* The panel of a selected annotation is at its automatic position
C25_Auto ==
    /\ selectedAnnotation # Null
    /\ selectedAnnotation.id \notin DOMAIN customChatPositions
    /\ originalImage # Null
    /\ chatPosition # Null

\* An automatic position is the one of the base placement of the canvas
C25_StaticPlacement ==
    C25_Auto =>
        chatPosition = ChatAutoPosition(selectedAnnotation.highlight, originalImage,
                                        ContainerSize(panelOpen), C25_BaseView)

\* A step that changes the view alone leaves an automatic position where it was
C25_ViewKeepsPanel ==
    (/\ C25_Auto
     /\ transform' # transform
     /\ selectedId' = selectedId
     /\ panelOpen' = panelOpen
     /\ customChatPositions' = customChatPositions) => chatPosition' = chatPosition

\* C25: the automatic chat position depends only on the highlight's box and the
\* base placement of the canvas in its container: it is the same for every pan
\* offset and zoom scale, and wheel events do not move an automatically
\* positioned panel.
C25_PanelIgnoresView == []C25_StaticPlacement /\ [][C25_ViewKeepsPanel]_vars

(***************************************************************************)
(* C26: the brush size of a stroke                                         *)
(***************************************************************************)
\* From the mouse-down to the release of a brush stroke, the size the stroke is
\* staged with stays the one of the mouse-down
C26_DragKeepsSize ==
    (isDrawing /\ isDrawing' /\ activeTool = "brush") => brushSize' = brushSize

\* The release stages the points drawn, with the brush size
C26_ReleaseStages ==
    (handleWindowMouseUp /\ StagesStroke) =>
        pendingStrokes' = Append(pendingStrokes,
                                 [points |-> brushPoints, brushSize |-> brushSize])

\* A staged stroke keeps its points and its size while it is staged
C26_StagedFrozen ==
    \A i \in DOMAIN pendingStrokes :
        i \in DOMAIN pendingStrokes' => pendingStrokes'[i] = pendingStrokes[i]

\* The release reads the brush size, and staged strokes stay as they are
C26_StagedAsReleased == [][C26_ReleaseStages /\ C26_StagedFrozen]_vars

\* C26: a brush stroke's brushSize is fixed when the stroke begins: it is the brush
\* size at the mouse-down that started it, even if '[' or ']' changes the size
\* during the drag; the points and the size of a staged stroke never change
\* afterwards.
C26_SizeFixedAtStart ==
    [][C26_DragKeepsSize /\ C26_ReleaseStages /\ C26_StagedFrozen]_vars

(***************************************************************************)
(* C27: overlapping image loads                                            *)
(***************************************************************************)
\* The step ends load k, the k-th oldest request in flight, without an error
C27_Completes(k) ==
    /\ k \in DOMAIN loads
    /\ loads' = RemoveAt(loads, k)
    /\ alertMessage' = alertMessage

\* A load that completes installs its image, whatever else is in flight
C27_Unconditional ==
    \A k \in DOMAIN loads :
        C27_Completes(k) =>
            originalImage' # Null /\ originalImage'.src = loads[k].img.src

\* Only a completion changes the working image
C27_OnlyCompletion ==
    originalImage' # originalImage => \E k \in DOMAIN loads : C27_Completes(k)

\* C27: overlapping loads are not guarded against out-of-order completion: every
\* completion installs its image, also that of an older request while a newer one
\* is in flight, and nothing else changes the working image; so the working image
\* is that of the completion that ran last, which can be the earlier request's.
C27_LastCompletionWins == [][C27_Unconditional /\ C27_OnlyCompletion]_vars

\* The default image was requested at mount, an upload after it (the upload
\* cleared the stored annotations); both loads have completed, and the working
\* image is the default image
C27_Witness ==
    /\ annotations = <<>>
    /\ loads = <<>>
    /\ originalImage # Null
    /\ originalImage.src = "default"

(***************************************************************************)
(* C28: the selected id                                                    *)
(***************************************************************************)
\* C28: in every reachable state the selected id is null or the id of an
\* annotation that is in the store and not completed.
C28_SelectedIsActive ==
    selectedId # Null =>
        \E i \in DOMAIN annotations :
            annotations[i].id = selectedId /\ ~ annotations[i].completed

(***************************************************************************)
(* C29: the kinds of pending highlight                                     *)
(***************************************************************************)
\* C29: in every reachable state at most one kind of pending highlight is staged:
\* a pending rectangle and pending brush strokes never exist at the same time.
C29_OneKindPending == ~ (pendingHighlight # Null /\ pendingStrokes # <<>>)

(***************************************************************************)
(* C30: what a mouse-down on the canvas does                               *)
(***************************************************************************)
\* The ids of the active annotations whose highlight the point hits
C30_HitIds(p) == {annotations[i].id : i \in C1_Hits(p, annotations)}

\* (a) the popover is open and the select tool is active: nothing changes
C30_Nothing == UNCHANGED vars

\* (b) a hit annotation is selected and no gesture starts
C30_Selects(p) ==
    /\ selectedId' \in C30_HitIds(p)
    /\ UNCHANGED <<storeVars, drawVars, pendVars, toolVars>>

\* (c) a drawing gesture starts at the point and the selection is cleared
C30_Draws(p) ==
    /\ isDrawing'
    /\ selectedId' = Null
    /\ activeTool = "select" => dragStart' = p /\ dragEnd' = p
    /\ activeTool = "brush" => brushPoints' = <<p>>
    /\ UNCHANGED <<storeVars, pendingStrokes, showInput, pendingHighlight, toolVars>>

\* The case of a mouse-down at p, from the state
C30_Case(p) ==
    IF showInput /\ activeTool = "select" THEN "a"
    ELSE IF pendingStrokes = <<>> /\ ~ showInput /\ C30_HitIds(p) # {} THEN "b"
    ELSE "c"

C30_MouseDown(p) ==
    handleMouseDown(p) =>
        /\ C30_Case(p) = "a" => C30_Nothing
        /\ C30_Case(p) = "b" => C30_Selects(p) /\ ~ isDrawing'
        /\ C30_Case(p) = "c" => C30_Draws(p)

\* C30: a mouse-down on the canvas does exactly one of: (a) nothing, when the
\* popover is open and the select tool is active; (b) selects the hit annotation
\* and starts no gesture, when no strokes are pending, the popover is closed and
\* the point hits an active annotation; (c) otherwise starts a drawing gesture at
\* the clicked point and clears the selection. No annotation is selected from the
\* canvas while strokes are pending.
C30_MouseDownCases == [][\A p \in DownPoints : C30_MouseDown(p)]_vars

\* A second stroke begun on top of a stored, active annotation while a stroke is
\* staged: the press drew and selected nothing
C30_Witness ==
    /\ pendingStrokes # <<>>
    /\ isDrawing
    /\ brushPoints = <<Pt(10, 10)>>
    /\ C30_HitIds(Pt(10, 10)) # {}
    /\ selectedId = Null

=============================================================================
